---- MODULE Spec2Model ----
(***************************************************************************)
(* The cinder store of glance_store (src/glance_store/_drivers/cinder.py): *)
(* Store._wait_volume_status, Store._open_cinder_volume and Store.add,     *)
(* as one sequential state machine.  The remote block-storage service is   *)
(* the environment: a call on it either raises or has its documented       *)
(* effect on the volume's status, and a status poll may find that a        *)
(* transitional status has moved on.                                       *)
(*                                                                         *)
(* Scaling.  Time is counted in half seconds (the first sleep of the poll  *)
(* loop is 0.5 s).  Byte counts are scaled: one capacity unit (units.Gi in *)
(* the code, 2^30 bytes) is Gi = 2^GiBits bytes here, and a Python float   *)
(* (53 significant bits) carries FloatBits significant bits.               *)
(***************************************************************************)
EXTENDS Integers, Sequences, FiniteSets, TLC

GiBits == 1
FloatBits == 3
MaxSrc == 5
MaxTimeout == 1
MaxWaitTimeout == 17
max_recheck_wait == 15
MaxCapacity == 2
MaxMeta == 11
MaxStores == 5
MaxName == 2
MaxPiece == 3
MaxPieces == 5
UuidLen == 3
MaxEmptyReads == 2
MaxFree == 2

Gi == 2 ^ GiBits
WRITE_CHUNKSIZE == Gi
READ_CHUNKSIZE == WRITE_CHUNKSIZE

Min(a, b) == IF a <= b THEN a ELSE b
Max(a, b) == IF a >= b THEN a ELSE b
InSeq(x, q) == \E i \in 1..Len(q) : q[i] = x

VARIABLES
    pc,             \* the statement the call is at
    exc,            \* the exception propagating (NoErr when none)
    image_size,     \* add: the declared size
    src_len,        \* add: the bytes the source holds
    verifier,       \* add: a verifier was given
    timeout,        \* cinder_state_transition_timeout, in seconds
    src_pos,        \* add: bytes read from the source so far
    size_gb, bytes_written, buf, need_extend, failed,   \* locals of add
    hashed,         \* the bytes fed to checksum.update, in order
    dev,            \* the volume's data: dev[i] is the source byte at offset i-1, 0 when unwritten
    remote,         \* the volume's status in the remote service
    capacity,       \* the volume's size in the remote service, in units
    vol_status,     \* volume.status of the volume object add holds
    sess_status,    \* volume.status of the volume object _open_cinder_volume holds
    device,         \* _open_cinder_volume: device is set (connect_volume returned)
    wfrom, wto, wret, wstatus, tries, elapsed,   \* _wait_volume_status
    calls,          \* history: the remote and connector calls made, in order
    hist,           \* history: counters and observations the properties read
    metadata,       \* the 'image_size' entry of the volume's metadata in the remote service
    context,        \* get_size: the request context given
    loc,            \* the store location an operation is given or has built
    returned,       \* the value the operation returned
    offset,         \* rbd add: the local offset
    image,          \* rbd: the image in the cluster
    rd,             \* get, delete and filesystem add: the arguments, what the service replied, and the
                    \* locals of the iterator get returned
    SCHEME_TO_CLS_MAP,  \* location.SCHEME_TO_CLS_MAP: scheme -> its entry in infos, 0 when none
    infos,          \* the scheme_info dicts made so far: 'store' and 'store_entry'
    stores,         \* the store instances constructed so far
    cs,             \* create_stores: its locals
    thr             \* the callers of get_store_from_scheme: position and locals of each

vars == <<pc, exc, image_size, src_len, verifier, timeout, src_pos, size_gb,
          bytes_written, buf, need_extend, failed, hashed, dev, remote, capacity,
          vol_status, sess_status, device, wfrom, wto, wret, wstatus, tries,
          elapsed, calls, hist, metadata, context, loc, returned,
          offset, image, rd, SCHEME_TO_CLS_MAP, infos, stores, cs, thr>>

inputs == <<image_size, src_len, verifier, timeout>>
registry == <<SCHEME_TO_CLS_MAP, infos, stores, cs, thr>>
\* what the cinder driver's add, session and wait leave alone
others == <<context, loc, returned, offset, image, rd, registry>>
addVars == <<src_pos, size_gb, bytes_written, buf, need_extend, failed, hashed, dev>>
waitVars == <<wfrom, wto, wret, wstatus, tries, elapsed>>

----------------------------------------------------------------------------
(* Exceptions: the class, the errno of an IOError, and the call that raised. *)

Err(cls, errno, site) == [cls |-> cls, errno |-> errno, site |-> site]
NoErr == Err("none", "-", "-")
ClientException(site) == Err("ClientException", "-", site)
BackendException(site) == Err("BackendException", "-", site)
BadStoreUri == Err("BadStoreUri", "-", "parse_uri")
StorageFull(site) == Err("StorageFull", "-", site)
StorageWriteDenied(site) == Err("StorageWriteDenied", "-", site)
IOError(errno, site) == Err("IOError", errno, site)
Exception(site) == Err("Exception", "-", site)
Duplicate(site) == Err("Duplicate", "-", site)
NotFound(site) == Err("NotFound", "-", site)
InUseByStore(site) == Err("InUseByStore", "-", site)
RbdError(site) == Err("rbd.Error", "-", site)

NoBuf == <<0, 0>>           \* buf is None or empty; otherwise <<first byte, length>>

HistInit == [polls |-> 0, sleeps |-> 0, slept |-> 0, lastWait |-> 0, timedOut |-> FALSE,
             waitEnd |-> "none", created |-> 0, createdSize |-> 0,
             sessions |-> 0, sessOpen |-> FALSE,
             bodyRan |-> FALSE, bodyErr |-> NoErr, closeRaised |-> FALSE, tryErr |-> NoErr, td |-> <<>>,
             t1Raised |-> FALSE, t2Raised |-> FALSE, t3Raised |-> FALSE,
             t4Raised |-> FALSE,
             extendAt |-> "none", extends |-> 0, escaped |-> NoErr,
             deleteCalls |-> 0, deleteRaised |-> FALSE, readonlyCalls |-> 0,
             readonlyAt |-> <<>>, lateFailure |-> "none", verified |-> <<>>]

----------------------------------------------------------------------------
(* Strings of decimal digits: a string is the sequence of its characters, a *)
(* digit character being the number it denotes and any other a string.     *)

Digits == 0..9
\* a character that is no digit
Letter == 10

RECURSIVE str(_)
\* str(n) of a non-negative integer n
str(n) == IF n < 10 THEN <<n>> ELSE Append(str(n \div 10), n % 10)

IsNumeric(s) == Len(s) > 0 /\ \A i \in 1..Len(s) : s[i] \in Digits

RECURSIVE int(_)
\* int(s) of a string s of decimal digits
int(s) == IF Len(s) = 0 THEN 0 ELSE 10 * int(SubSeq(s, 1, Len(s) - 1)) + s[Len(s)]

\* the 'image_size' entry of a volume's metadata: missing, or a string
Absent == [has |-> FALSE, value |-> <<>>]
Present(s) == [has |-> TRUE, value |-> s]

\* the scheme registry before create_stores, and nobody calling
SchemeNames == {"rbd", "cinder", "swift", "swift+http", "x", "nope"}
Threads == {1, 2}
NoCs == [conf |-> {}, todo |-> {}, store_entry |-> "none", store_instance |-> 0,
         store_count |-> 0, bsc |-> {}, loaded |-> {}]
NoThread == [pc |-> "off", via |-> "none", arg |-> "none", scheme_info |-> 0,
             store |-> 0, todo |-> <<>>, scheme_map |-> {}, exc |-> NoErr, ret |-> 0]
NoRegistry ==
    /\ SCHEME_TO_CLS_MAP = [k \in SchemeNames |-> 0]
    /\ infos = <<>>
    /\ stores = <<>>
    /\ cs = NoCs
    /\ thr = [t \in Threads |-> NoThread]

\* the states of the components an operation does not involve
NoImage == [exists |-> FALSE, size |-> 0, data |-> <<>>, snap |-> "none"]
NoRd == [offset |-> 0, chunk_size |-> Absent, reply |-> "none", deleted |-> "none",
         max_size |-> 0, partial_length |-> Absent, pos |-> 0, out |-> <<>>]
NoLoc == [kind |-> "none"]
NoRet == [op |-> "none"]
NoContext == [kind |-> "none", user_overriden |-> FALSE]
Idle ==
    /\ context = NoContext
    /\ loc = NoLoc
    /\ returned = NoRet
    /\ offset = 0
    /\ image = NoImage
    /\ rd = NoRd
    /\ NoRegistry

----------------------------------------------------------------------------
(* The remote service: what a poll of the volume may find. *)

Progress(s) ==
    CASE s = "creating"  -> {"creating", "available", "error"}
      [] s = "attaching" -> {"attaching", "in-use", "error"}
      [] s = "extending" -> {"extending", "available", "error"}
      [] OTHER           -> {s}

----------------------------------------------------------------------------
(* Store._wait_volume_status *)

\* wait = min(0.5 * 2 ** tries, max_recheck_wait), in half seconds
WaitOf_Mut(k) == 2 ^ k
WaitOf(k) == Min(2 ^ k, 2 * max_recheck_wait)

\* elapsed >= timeout, elapsed in half seconds and timeout in seconds
TimedOut_Mut(e, t) == e > 2 * t
TimedOut(e, t) == e >= 2 * t

\* what add does with the outcome of the wait for extending -> available
ExtendWaitError_Mut(e) == e
ExtendWaitError(e) == IF e.cls = "BackendException" THEN StorageFull(e.site) ELSE e

\* control returns to the caller of _wait_volume_status with error e (NoErr: it
\* returned the volume); t and el are tries and elapsed at that moment.  The locals
\* of a call that returned are gone: they are cleared.
WaitReturn(e, t, el) ==
    /\ tries' = IF e = NoErr THEN 0 ELSE t
    /\ elapsed' = IF e = NoErr THEN 0 ELSE el
    /\ wstatus' = IF e = NoErr THEN "none" ELSE wstatus
    /\ CASE wret = "standalone" ->
            /\ pc' = "done"
            /\ exc' = e
            /\ UNCHANGED <<vol_status, sess_status>>
      [] wret = "create" ->
            \* line 641: outside the try block of add
            /\ pc' = IF e = NoErr THEN "try_init" ELSE "done"
            /\ exc' = e
            /\ vol_status' = IF e = NoErr THEN wstatus ELSE vol_status
            /\ UNCHANGED sess_status
      [] wret = "attach" ->
            \* line 476: inside the try block of _open_cinder_volume
            /\ pc' = IF e = NoErr THEN "s_open" ELSE "t1"
            /\ exc' = e
            /\ sess_status' = IF e = NoErr THEN wstatus ELSE sess_status
            /\ UNCHANGED vol_status
      [] wret = "extend" ->
            \* lines 672-677
            /\ pc' = IF e = NoErr THEN "loop_head" ELSE "handler"
            /\ exc' = ExtendWaitError(e)
            /\ vol_status' = IF e = NoErr THEN wstatus ELSE vol_status
            /\ UNCHANGED sess_status

\* the history of a call that returned the volume is cleared with its locals
WaitOk(h) == [h EXCEPT !.polls = 0, !.sleeps = 0, !.slept = 0, !.lastWait = 0,
                       !.waitEnd = "ok"]

\* line 427: volume = volume.manager.get(volume.id); tries = 0; elapsed = 0
W_Get ==
    /\ pc = "w_get"
    /\ \E ok \in BOOLEAN :
        IF ok
        THEN \E s \in Progress(remote) :
                /\ remote' = s
                /\ wstatus' = s
                /\ tries' = 0
                /\ elapsed' = 0
                /\ pc' = "w_loop"
                /\ hist' = [hist EXCEPT !.polls = @ + 1]
                /\ UNCHANGED <<exc, vol_status, sess_status>>
        ELSE /\ WaitReturn(ClientException("get"), 0, 0)
             /\ hist' = [hist EXCEPT !.waitEnd = "client"]
             /\ UNCHANGED remote
    /\ UNCHANGED <<inputs, others, metadata, addVars, capacity, device, wfrom, wto, wret, calls>>

\* lines 430-436: the status is still status_transition and the time is up
W_Timeout ==
    /\ pc = "w_loop"
    /\ wstatus = wfrom
    /\ TimedOut(elapsed, timeout)
    /\ WaitReturn(BackendException("timeout"), tries, elapsed)
    /\ hist' = [hist EXCEPT !.timedOut = TRUE, !.waitEnd = "timeout"]
    /\ UNCHANGED <<inputs, others, metadata, addVars, remote, capacity, device, wfrom, wto, wret, calls>>

\* lines 438-442: sleep, count, and poll again
W_SleepPoll ==
    /\ pc = "w_loop"
    /\ wstatus = wfrom
    /\ ~TimedOut(elapsed, timeout)
    /\ \E ok \in BOOLEAN :
        IF ok
        THEN \E s \in Progress(remote) :
                /\ tries' = tries + 1
                /\ elapsed' = elapsed + WaitOf(tries)
                /\ remote' = s
                /\ wstatus' = s
                /\ pc' = "w_loop"
                /\ hist' = [hist EXCEPT !.polls = @ + 1, !.sleeps = @ + 1,
                                        !.slept = @ + WaitOf(tries),
                                        !.lastWait = WaitOf(tries)]
                /\ UNCHANGED <<exc, vol_status, sess_status>>
        ELSE /\ WaitReturn(ClientException("get"), tries + 1, elapsed + WaitOf(tries))
             /\ hist' = [hist EXCEPT !.sleeps = @ + 1, !.slept = @ + WaitOf(tries),
                                     !.lastWait = WaitOf(tries), !.waitEnd = "client"]
             /\ UNCHANGED remote
    /\ UNCHANGED <<inputs, others, metadata, addVars, capacity, device, wfrom, wto, wret, calls>>

\* lines 443-449: if volume.status != status_expected: raise BackendException
Unexpected_Mut(status, expected) == NoErr
Unexpected(status, expected) ==
    IF status # expected THEN BackendException("status") ELSE NoErr

\* lines 443-450: the status left status_transition
W_Check ==
    /\ pc = "w_loop"
    /\ wstatus # wfrom
    /\ WaitReturn(Unexpected(wstatus, wto), tries, elapsed)
    /\ hist' = IF Unexpected(wstatus, wto) # NoErr
               THEN [hist EXCEPT !.waitEnd = "status"]
               ELSE WaitOk(hist)
    /\ UNCHANGED <<inputs, others, metadata, addVars, remote, capacity, device, wfrom, wto, wret, calls>>

\* a new call of _wait_volume_status starts its own clock
WaitStart(h) == [h EXCEPT !.slept = 0, !.lastWait = 0]

\* the call self._wait_volume_status(volume, from, to), made from the place ret
CallWait(from, to, ret) ==
    /\ pc' = "w_get"
    /\ wfrom' = from
    /\ wto' = to
    /\ wret' = ret
    /\ UNCHANGED <<wstatus, tries, elapsed>>

----------------------------------------------------------------------------
(* _wait_volume_status on its own: any transition, any timeout. *)

Transitions == {<<"creating", "available">>, <<"attaching", "in-use">>,
                <<"extending", "available">>}

InitWait ==
    /\ pc = "w_get"
    /\ exc = NoErr
    /\ image_size = 0 /\ src_len = 0 /\ src_pos = 0 /\ verifier = FALSE
    /\ timeout \in 0..MaxWaitTimeout
    /\ size_gb = 1 /\ bytes_written = 0 /\ buf = NoBuf
    /\ need_extend = FALSE /\ failed = FALSE
    /\ hashed = <<>>
    /\ dev = [i \in 1..MaxSrc |-> 0]
    /\ \E t \in Transitions : wfrom = t[1] /\ wto = t[2] /\ remote \in {t[1], t[2], "error"}
    /\ capacity = 1
    /\ vol_status = remote
    /\ sess_status = "none"
    /\ device = FALSE
    /\ wret = "standalone" /\ wstatus = "none" /\ tries = 0 /\ elapsed = 0
    /\ calls = <<>>
    /\ hist = HistInit
    /\ metadata = Absent
    /\ Idle

NextWait == W_Get \/ W_Timeout \/ W_SleepPoll \/ W_Check

SpecWait == InitWait /\ [][NextWait]_vars

----------------------------------------------------------------------------
(* Store.add, lines 624-641: the volume is created and awaited. *)

RECURSIVE Exponent(_)
\* the e with n < 2^(FloatBits + e), least: the ulp of float(n) is 2^e
Exponent(n) == IF n < 2 ^ FloatBits THEN 0 ELSE 1 + Exponent(n \div 2)

\* float(n): n rounded to FloatBits significant bits, ties to the even mantissa
ToFloat(n) ==
    LET ulp == 2 ^ Exponent(n)
        q == n \div ulp
        r == n % ulp
    IN  IF 2 * r < ulp THEN q * ulp
        ELSE IF 2 * r > ulp THEN (q + 1) * ulp
        ELSE IF q % 2 = 0 THEN q * ulp ELSE (q + 1) * ulp

CeilDiv(a, b) == (a + b - 1) \div b

\* lines 626-628: int(math.ceil(float(image_size) / units.Gi)), at least 1
\* (the division of a float by the power of two Gi is exact)
SizeGb(n) ==
    LET g == CeilDiv(ToFloat(n), Gi)
    IN  IF g = 0 THEN 1 ELSE g

\* line 640: volume = client.volumes.create(size_gb, ...); line 641: the wait
A_Create ==
    /\ pc = "create"
    /\ size_gb' = SizeGb(image_size)
    /\ \E ok \in BOOLEAN :
        IF ok
        THEN /\ remote' = "creating"
             /\ capacity' = size_gb'
             /\ vol_status' = "creating"
             /\ metadata' = Present(str(image_size))
             /\ calls' = Append(calls, "create")
             /\ hist' = WaitStart([hist EXCEPT !.created = 1, !.createdSize = size_gb'])
             /\ CallWait("creating", "available", "create")
             /\ exc' = exc
        ELSE /\ pc' = "done"
             /\ exc' = ClientException("create")
             /\ calls' = Append(calls, "create")
             /\ UNCHANGED <<remote, capacity, vol_status, metadata, waitVars, hist>>
    /\ UNCHANGED <<inputs, others, src_pos, bytes_written, buf, need_extend, failed, hashed,
                   dev, sess_status, device>>

\* lines 643-645
A_TryInit ==
    /\ pc = "try_init"
    /\ failed' = TRUE
    /\ need_extend' = TRUE
    /\ buf' = NoBuf
    /\ pc' = "loop_head"
    /\ UNCHANGED <<exc, inputs, others, metadata, src_pos, size_gb, bytes_written, hashed, dev, remote,
                   capacity, vol_status, sess_status, device, waitVars, calls, hist>>

\* line 647: while need_extend; line 679: failed = False
A_LoopHead ==
    /\ pc = "loop_head"
    /\ IF need_extend
       THEN pc' = "s_reserve" /\ failed' = failed
       ELSE pc' = "finalize" /\ failed' = FALSE
    /\ UNCHANGED <<exc, inputs, others, metadata, src_pos, size_gb, bytes_written, buf, need_extend,
                   hashed, dev, remote, capacity, vol_status, sess_status, device,
                   waitVars, calls, hist>>

----------------------------------------------------------------------------
(* Store._open_cinder_volume: the attachment session. *)

sessFrame == <<inputs, others, metadata, addVars, capacity, vol_status>>

\* lines 461-467: volume.reserve has a try block of its own, before the one whose
\* finally block is the teardown: its failure leaves _open_cinder_volume at once
ReserveFailed_Mut == [pc |-> "t1", exc |-> BackendException("reserve")]
ReserveFailed == [pc |-> "handler", exc |-> BackendException("reserve")]

\* lines 461-467: volume.reserve(volume); a ClientException becomes BackendException
\* and leaves the context manager before its try block is entered
S_Reserve ==
    /\ pc = "s_reserve"
    /\ sess_status' = vol_status
    /\ device' = FALSE
    /\ calls' = Append(calls, "reserve")
    /\ \E ok \in {b \in BOOLEAN : b => remote = "available"} :
        IF ok
        THEN /\ remote' = "attaching"
             /\ pc' = "s_init"
             /\ exc' = exc
             /\ hist' = [hist EXCEPT !.sessions = @ + 1, !.sessOpen = TRUE,
                                     !.bodyRan = FALSE, !.bodyErr = NoErr,
                                     !.closeRaised = FALSE,
                                     !.tryErr = NoErr, !.td = <<>>,
                                     !.t1Raised = FALSE, !.t2Raised = FALSE,
                                     !.t3Raised = FALSE, !.t4Raised = FALSE]
        ELSE /\ pc' = ReserveFailed.pc
             /\ exc' = ReserveFailed.exc
             /\ UNCHANGED <<remote, hist>>
    /\ UNCHANGED <<sessFrame, waitVars>>

\* lines 470-473: volume.initialize_connection and the connector factory
S_InitConn ==
    /\ pc = "s_init"
    /\ calls' = Append(calls, "initialize_connection")
    /\ \E ok \in BOOLEAN :
        IF ok
        THEN pc' = "s_connect" /\ exc' = exc
        ELSE pc' = "t1" /\ exc' = ClientException("initialize_connection")
    /\ UNCHANGED <<sessFrame, remote, sess_status, device, waitVars, hist>>

\* line 474: device = conn.connect_volume(...)
S_Connect ==
    /\ pc = "s_connect"
    /\ calls' = Append(calls, "connect_volume")
    /\ \E ok \in BOOLEAN :
        IF ok
        THEN pc' = "s_attach" /\ exc' = exc /\ device' = TRUE
        ELSE pc' = "t1" /\ exc' = Exception("connect_volume") /\ device' = device
    /\ UNCHANGED <<sessFrame, remote, sess_status, waitVars, hist>>

\* lines 475-476: volume.attach(...), then the wait for attaching -> in-use
S_Attach ==
    /\ pc = "s_attach"
    /\ calls' = Append(calls, "attach")
    /\ \E ok \in BOOLEAN :
        IF ok
        THEN /\ CallWait("attaching", "in-use", "attach")
             /\ exc' = exc
             /\ hist' = WaitStart(hist)
        ELSE /\ pc' = "t1"
             /\ exc' = ClientException("attach")
             /\ UNCHANGED <<waitVars, hist>>
    /\ UNCHANGED <<sessFrame, remote, sess_status, device>>

\* lines 478-479: temporary_chown(device path) and open(device path, mode)
S_Open ==
    /\ pc = "s_open"
    /\ \E ok \in BOOLEAN :
        IF ok
        THEN /\ pc' = "body_seek"
             /\ exc' = exc
             /\ hist' = [hist EXCEPT !.bodyRan = TRUE]
        ELSE /\ pc' = "t1"
             /\ exc' = IOError("EACCES", "open")
             /\ hist' = hist
    /\ UNCHANGED <<sessFrame, remote, sess_status, device, waitVars, calls>>

\* leaving "with temporary_chown(...), open(...) as f": the file is closed and the
\* owner restored (lines 385-389); either may raise over the exception in flight
S_Close ==
    /\ pc = "s_close"
    /\ pc' = "t1"
    /\ \E ok \in BOOLEAN :
        IF ok
        THEN /\ exc' = exc
             /\ hist' = [hist EXCEPT !.bodyErr = exc]
        ELSE /\ exc' = IOError("EIO", "close")
             /\ hist' = [hist EXCEPT !.bodyErr = exc, !.closeRaised = TRUE]
    /\ UNCHANGED <<sessFrame, remote, sess_status, device, waitVars, calls>>

\* lines 486-489: begin_detaching or unreserve, by the status the volume object
\* holds; not inside a try, so its exception leaves the finally block at once
T1 ==
    /\ pc = "t1"
    /\ IF sess_status \in {"in-use", "attaching"}
       THEN LET call == IF sess_status = "in-use" THEN "begin_detaching" ELSE "unreserve"
                after == IF sess_status = "in-use" THEN "detaching" ELSE "available"
            IN  /\ calls' = Append(calls, call)
                /\ \E ok \in {b \in BOOLEAN : b => remote = sess_status} :
                    IF ok
                    THEN /\ remote' = after
                         /\ pc' = "t2"
                         /\ exc' = exc
                         /\ hist' = [hist EXCEPT !.tryErr = exc, !.td = Append(@, call)]
                    ELSE /\ remote' = remote
                         /\ pc' = "s_exit"
                         /\ exc' = ClientException(call)
                         /\ hist' = [hist EXCEPT !.tryErr = exc, !.td = Append(@, call),
                                                 !.t1Raised = TRUE]
       ELSE /\ pc' = "t2"
            /\ exc' = exc
            /\ hist' = [hist EXCEPT !.tryErr = exc]
            /\ UNCHANGED <<remote, calls>>
    /\ UNCHANGED <<sessFrame, sess_status, device, waitVars>>

\* where a failure of conn.disconnect_volume leaves the teardown: caught and logged
DisconnectFailed_Mut == [pc |-> "s_exit", exc |-> Exception("disconnect_volume")]
DisconnectFailed == [pc |-> "t3", exc |-> exc]

\* lines 491-497: if device: conn.disconnect_volume(...)
T2 ==
    /\ pc = "t2"
    /\ IF device
       THEN /\ calls' = Append(calls, "disconnect_volume")
            /\ \E ok \in BOOLEAN :
                IF ok
                THEN /\ pc' = "t3"
                     /\ exc' = exc
                     /\ hist' = [hist EXCEPT !.td = Append(@, "disconnect_volume")]
                ELSE /\ pc' = DisconnectFailed.pc
                     /\ exc' = DisconnectFailed.exc
                     /\ hist' = [hist EXCEPT !.td = Append(@, "disconnect_volume"),
                                             !.t2Raised = TRUE]
       ELSE /\ pc' = "t3"
            /\ UNCHANGED <<exc, calls, hist>>
    /\ UNCHANGED <<sessFrame, remote, sess_status, device, waitVars>>

\* lines 499-503: volume.terminate_connection(...)
T3 ==
    /\ pc = "t3"
    /\ pc' = "t4"
    /\ calls' = Append(calls, "terminate_connection")
    /\ \E ok \in BOOLEAN :
        hist' = [hist EXCEPT !.td = Append(@, "terminate_connection"), !.t3Raised = ~ok]
    /\ UNCHANGED <<exc, sessFrame, remote, sess_status, device, waitVars>>

\* lines 505-509: client.volumes.detach(volume)
T4 ==
    /\ pc = "t4"
    /\ pc' = "s_exit"
    /\ calls' = Append(calls, "detach")
    /\ \E ok \in BOOLEAN :
        /\ hist' = [hist EXCEPT !.td = Append(@, "detach"), !.t4Raised = ~ok]
        /\ remote' = IF ok /\ remote \in {"attaching", "in-use", "detaching"}
                     THEN "available" ELSE remote
    /\ UNCHANGED <<exc, sessFrame, sess_status, device, waitVars>>

\* the with statement of add (line 648) is left: normally, or by the exception
S_Exit ==
    /\ pc = "s_exit"
    /\ pc' = IF exc = NoErr THEN "after_session" ELSE "handler"
    /\ hist' = [hist EXCEPT !.sessOpen = FALSE]
    /\ UNCHANGED <<exc, sessFrame, remote, sess_status, device, waitVars, calls>>

----------------------------------------------------------------------------
(* Store.add, lines 646-710: the write loop, the clean-up and the final marks. *)

WriteErrnos == {"ENOSPC", "EFBIG", "EACCES", "EIO"}

\* the bytes of a chunk <<first, length>>, in order
Bytes_Mut(b) == [i \in 1..b[2] |-> b[1]]
Bytes(b) == [i \in 1..b[2] |-> b[1] + i - 1]

\* f.write(b) at offset off fits the attached device
Fits(off, b) == off + b[2] <= capacity * Gi

\* the device after f.write(b) at offset off
WriteAt(d, off, b) ==
    [i \in DOMAIN d |-> IF off < i /\ i <= off + b[2] THEN b[1] + (i - off - 1) ELSE d[i]]

WriteOutcomes(off, b) == (IF Fits(off, b) THEN {"ok"} ELSE {}) \cup WriteErrnos

\* bytes_written += len(buf) after a write
Advance_Mut(n, b) == n
Advance(n, b) == n + b[2]

\* lines 661-662: the chunk does not fit the volume and the size was not declared
MustExtend_Mut(n, b) == n + b[2] >= size_gb * Gi /\ image_size = 0
MustExtend(n, b) == n + b[2] > size_gb * Gi /\ image_size = 0

bodyFrame == <<inputs, others, metadata, remote, capacity, vol_status, sess_status, device, waitVars, calls>>

\* lines 649-652: f.seek(bytes_written); the chunk held back before the extension
B_Seek ==
    /\ pc = "body_seek"
    /\ IF buf # NoBuf
       THEN \E o \in WriteOutcomes(bytes_written, buf) :
               IF o = "ok"
               THEN /\ dev' = WriteAt(dev, bytes_written, buf)
                    /\ bytes_written' = Advance(bytes_written, buf)
                    /\ pc' = "body_read"
                    /\ exc' = exc
               ELSE /\ pc' = "s_close"
                    /\ exc' = IOError(o, "write")
                    /\ UNCHANGED <<dev, bytes_written>>
       ELSE /\ pc' = "body_read"
            /\ UNCHANGED <<exc, dev, bytes_written>>
    /\ UNCHANGED <<bodyFrame, src_pos, size_gb, buf, need_extend, failed, hashed, hist>>

\* lines 654-663: read a chunk, feed the checksum and the verifier, decide
B_Read ==
    /\ pc = "body_read"
    /\ \E o \in {"ok", "read", "verifier"} :
        CASE o = "read" ->
                /\ pc' = "s_close"
                /\ exc' = IOError("EIO", "read")
                /\ UNCHANGED <<src_pos, buf, need_extend, hashed, hist>>
          [] o = "ok" /\ src_pos = src_len ->
                /\ buf' = NoBuf
                /\ need_extend' = FALSE
                /\ pc' = "s_close"
                /\ UNCHANGED <<exc, src_pos, hashed, hist>>
          [] o = "ok" /\ src_pos < src_len ->
                \E n \in 1..Min(WRITE_CHUNKSIZE, src_len - src_pos) :
                    /\ buf' = <<src_pos + 1, n>>
                    /\ src_pos' = src_pos + n
                    /\ hashed' = hashed \o Bytes(buf')
                    /\ hist' = IF verifier
                               THEN [hist EXCEPT !.verified = @ \o Bytes(buf')]
                               ELSE hist
                    /\ pc' = IF MustExtend(bytes_written, buf')
                             THEN "s_close" ELSE "body_write"
                    /\ UNCHANGED <<exc, need_extend>>
          [] o = "verifier" ->
                /\ verifier /\ src_pos < src_len
                /\ \E n \in 1..Min(WRITE_CHUNKSIZE, src_len - src_pos) :
                    /\ buf' = <<src_pos + 1, n>>
                    /\ src_pos' = src_pos + n
                    /\ hashed' = hashed \o Bytes(buf')
                /\ pc' = "s_close"
                /\ exc' = Exception("verifier")
                /\ UNCHANGED <<need_extend, hist>>
    /\ UNCHANGED <<bodyFrame, size_gb, bytes_written, failed, dev>>

\* lines 664-665: f.write(buf); bytes_written += len(buf)
B_Write ==
    /\ pc = "body_write"
    /\ \E o \in WriteOutcomes(bytes_written, buf) :
        IF o = "ok"
        THEN /\ dev' = WriteAt(dev, bytes_written, buf)
             /\ bytes_written' = Advance(bytes_written, buf)
             /\ pc' = "body_read"
             /\ exc' = exc
        ELSE /\ pc' = "s_close"
             /\ exc' = IOError(o, "write")
             /\ UNCHANGED <<dev, bytes_written>>
    /\ UNCHANGED <<bodyFrame, src_pos, size_gb, buf, need_extend, failed, hashed, hist>>

\* lines 667-671: if need_extend: size_gb += 1; volume.extend(volume, size_gb); the wait
A_AfterSession ==
    /\ pc = "after_session"
    /\ IF need_extend
       THEN /\ size_gb' = size_gb + 1
            /\ calls' = Append(calls, "extend")
            /\ \E ok \in {b \in BOOLEAN : b => remote = "available"} :
                IF ok
                THEN /\ remote' = "extending"
                     /\ capacity' = size_gb'
                     /\ CallWait("extending", "available", "extend")
                     /\ exc' = exc
                     /\ hist' = WaitStart([hist EXCEPT !.extendAt = remote,
                                                       !.extends = @ + 1])
                ELSE /\ pc' = "handler"
                     /\ exc' = ClientException("extend")
                     /\ hist' = [hist EXCEPT !.extendAt = remote, !.extends = @ + 1]
                     /\ UNCHANGED <<remote, capacity, waitVars>>
       ELSE /\ pc' = "loop_head"
            /\ UNCHANGED <<exc, size_gb, remote, capacity, waitVars, calls, hist>>
    /\ UNCHANGED <<inputs, others, metadata, src_pos, bytes_written, buf, need_extend, failed, hashed,
                   dev, vol_status, sess_status, device>>

\* lines 680-685: errors.get(e.errno, e) for an IOError e
Translate_Mut(e) == e
Translate(e) ==
    IF e.cls # "IOError" THEN e
    ELSE CASE e.errno \in {"EFBIG", "ENOSPC"} -> StorageFull(e.site)
           [] e.errno = "EACCES"              -> StorageWriteDenied(e.site)
           [] OTHER                           -> e

\* lines 680-685: except IOError as e: raise errors.get(e.errno, e)
A_Handler ==
    /\ pc = "handler"
    /\ exc' = Translate(exc)
    /\ hist' = [hist EXCEPT !.escaped = exc]
    /\ pc' = "cleanup"
    /\ UNCHANGED <<inputs, others, metadata, addVars, remote, capacity, vol_status, sess_status, device,
                   waitVars, calls>>

\* what add raises when volume.delete() of the clean-up raised: logged, not raised
DeleteFailed_Mut == Exception("delete")
DeleteFailed == exc

\* where add continues after the finally block when an exception is in flight
AfterCleanup_Mut == "finalize"
AfterCleanup == "done"

\* lines 686-695: finally: if failed: volume.delete(), guarded
A_Cleanup ==
    /\ pc = "cleanup"
    /\ pc' = AfterCleanup
    /\ IF failed
       THEN /\ calls' = Append(calls, "delete")
            /\ \E ok \in BOOLEAN :
                IF ok
                THEN /\ remote' = "deleting"
                     /\ exc' = exc
                     /\ hist' = [hist EXCEPT !.deleteCalls = @ + 1]
                ELSE /\ remote' = remote
                     /\ exc' = DeleteFailed
                     /\ hist' = [hist EXCEPT !.deleteCalls = @ + 1,
                                             !.deleteRaised = TRUE]
       ELSE UNCHANGED <<exc, remote, calls, hist>>
    /\ UNCHANGED <<inputs, others, metadata, addVars, capacity, vol_status, sess_status, device, waitVars>>

\* lines 697-698: metadata.update({'image_size': str(bytes_written)}), sent whole
UpdatedMetadata_Mut(md, n) == md
UpdatedMetadata(md, n) == Present(str(n))

\* lines 697-699: if image_size == 0: metadata.update({'image_size':
\* str(bytes_written)}); volume.update_all_metadata(metadata)
A_Finalize ==
    /\ pc = "finalize"
    /\ IF image_size = 0
       THEN /\ calls' = Append(calls, "update_all_metadata")
            /\ \E ok \in BOOLEAN :
                IF ok
                THEN /\ pc' = "readonly"
                     /\ metadata' = UpdatedMetadata(metadata, bytes_written)
                     /\ UNCHANGED <<exc, hist>>
                ELSE /\ pc' = "done"
                     /\ exc' = ClientException("update_all_metadata")
                     /\ hist' = [hist EXCEPT !.lateFailure = "update_all_metadata"]
                     /\ UNCHANGED metadata
       ELSE pc' = "readonly" /\ UNCHANGED <<exc, calls, hist, metadata>>
    /\ UNCHANGED <<inputs, others, addVars, remote, capacity, vol_status, sess_status, device,
                   waitVars>>

\* lines 700-710: volume.update_readonly_flag(volume, True); return
A_Readonly ==
    /\ pc = "readonly"
    /\ pc' = "done"
    /\ calls' = Append(calls, "update_readonly_flag")
    /\ \E ok \in BOOLEAN :
        IF ok
        THEN /\ exc' = exc
             /\ hist' = [hist EXCEPT !.readonlyCalls = @ + 1]
        ELSE /\ exc' = ClientException("update_readonly_flag")
             /\ hist' = [hist EXCEPT !.readonlyCalls = @ + 1,
                                     !.lateFailure = "update_readonly_flag"]
    /\ UNCHANGED <<inputs, others, metadata, addVars, remote, capacity, vol_status, sess_status, device,
                   waitVars>>

----------------------------------------------------------------------------
(* The cinder store: Store.get_size.  The service holds at most one volume, *)
(* of id 1: the one add created.                                           *)

BadStoreConfiguration(site) == Err("BadStoreConfiguration", "-", site)
ValueError(site) == Err("ValueError", "-", site)
UnboundLocalError(site) == Err("UnboundLocalError", "-", site)

\* a request context: None, one without a service catalog, or a full one; with
\* it, whether the configuration names a user of its own (is_user_overriden)
Contexts == [kind : {"none", "nocatalog", "ok"}, user_overriden : BOOLEAN]

\* lines 411-422: what _check_context raises (NoErr: it returns)
CheckContext(ctx, require_tenant) ==
    IF ctx.user_overriden /\ ~require_tenant THEN NoErr
    ELSE IF ctx.kind = "none" THEN BadStoreConfiguration("context")
    ELSE IF ~ctx.user_overriden /\ ctx.kind = "nocatalog"
    THEN BadStoreConfiguration("service_catalog")
    ELSE NoErr

\* volume.size * units.Gi
VolumeBytes_Mut(size) == size
VolumeBytes(size) == size * Gi

\* lines 591-592: int(volume.metadata.get('image_size', volume.size * units.Gi)):
\* <<value, exception>>
SizeOfVolume(md, size) ==
    IF ~md.has THEN <<VolumeBytes(size), NoErr>>
    ELSE IF IsNumeric(md.value) THEN <<int(md.value), NoErr>>
    ELSE <<0, ValueError("int")>>

\* the volume of id v is known to the service
Known(v) == v = 1 /\ remote # "none"

\* lines 586-599: Store.get_size.  NotFound of the service becomes NotFound; any
\* other exception is logged and 0 is returned.
G_GetSize ==
    /\ pc = "get_size"
    /\ pc' = "gs_done"
    /\ \E o \in {"ok", "client", "get"} :
        LET found == SizeOfVolume(metadata, capacity)
            early == IF CheckContext(context, FALSE) # NoErr
                     THEN CheckContext(context, FALSE)
                     ELSE IF o = "client" THEN ClientException("get_cinderclient")
                     ELSE NoErr
            e == IF early # NoErr THEN early
                 ELSE IF o = "get" THEN ClientException("get")
                 ELSE IF ~Known(loc.volume_id) THEN NotFound("get")
                 ELSE found[2]
        IN  /\ calls' = IF early = NoErr THEN Append(calls, "volumes.get") ELSE calls
            /\ IF e.cls = "NotFound"
               THEN /\ exc' = e
                    /\ returned' = returned
               ELSE /\ exc' = exc
                    /\ returned' = [op |-> "get_size",
                                    value |-> IF e = NoErr THEN found[1] ELSE 0,
                                    logged |-> e]
    /\ UNCHANGED <<inputs, addVars, remote, capacity, vol_status, sess_status, device,
                   waitVars, hist, metadata, context, loc, offset, image, rd, registry>>

\* the location add returned (line 710) is given to get_size, with any context
CallGetSize ==
    /\ pc = "done" /\ exc = NoErr /\ hist.readonlyCalls = 1
    /\ pc' = "get_size"
    /\ loc' = [kind |-> "cinder", volume_id |-> 1]
    /\ context' \in Contexts
    /\ UNCHANGED <<inputs, addVars, exc, remote, capacity, vol_status, sess_status,
                   device, waitVars, calls, hist, metadata, returned, offset, image, rd,
                   registry>>

----------------------------------------------------------------------------
(* Store.add: any declared size, any source, any behaviour of the service. *)

\* the locals before an operation starts
Locals ==
    /\ exc = NoErr
    /\ src_pos = 0
    /\ size_gb = 0 /\ bytes_written = 0 /\ buf = NoBuf
    /\ need_extend = FALSE /\ failed = FALSE
    /\ hashed = <<>>
    /\ vol_status = "none"
    /\ sess_status = "none"
    /\ device = FALSE
    /\ wfrom = "none" /\ wto = "none" /\ wret = "none" /\ wstatus = "none"
    /\ tries = 0 /\ elapsed = 0
    /\ calls = <<>>
    /\ hist = HistInit

FreshLocals == Locals /\ dev = [i \in 1..MaxSrc |-> 0]

\* the remote service holds no volume
NoVolume ==
    /\ remote = "none"
    /\ capacity = 0
    /\ metadata = Absent

\* the locals and the environment before an operation starts
Fresh == FreshLocals /\ NoVolume

\* the state add starts in
Start == pc = "create" /\ Fresh /\ Idle

\* the size is undeclared (0), declared truly, or declared as one byte
Init ==
    /\ src_len \in 0..MaxSrc
    /\ image_size \in {0, 1, src_len}
    /\ verifier \in BOOLEAN
    /\ timeout = MaxTimeout
    /\ Start

Next ==
    \/ A_Create \/ A_TryInit \/ A_LoopHead
    \/ W_Get \/ W_Timeout \/ W_SleepPoll \/ W_Check
    \/ S_Reserve \/ S_InitConn \/ S_Connect \/ S_Attach \/ S_Open \/ S_Close
    \/ T1 \/ T2 \/ T3 \/ T4 \/ S_Exit
    \/ B_Seek \/ B_Read \/ B_Write
    \/ A_AfterSession \/ A_Handler \/ A_Cleanup \/ A_Finalize \/ A_Readonly
    \/ CallGetSize \/ G_GetSize

Spec == Init /\ [][Next]_vars

----------------------------------------------------------------------------
(* Store.get_size alone. *)

\* get_size on its own: any volume record, any location, any context
MetadataValues ==
    {Absent} \cup {Present(str(n)) : n \in 0..MaxMeta}
             \cup {Present(<<>>), Present(<<Letter>>), Present(<<1, Letter>>)}

InitGetSize ==
    /\ pc = "get_size"
    /\ FreshLocals
    /\ image_size = 0 /\ src_len = 0 /\ verifier = FALSE /\ timeout = MaxTimeout
    /\ remote \in {"none", "available", "in-use"}
    /\ capacity \in IF remote = "none" THEN {0} ELSE 1..MaxCapacity
    /\ metadata \in IF remote = "none" THEN {Absent} ELSE MetadataValues
    /\ loc \in {[kind |-> "cinder", volume_id |-> v] : v \in 1..2}
    /\ context \in Contexts
    /\ returned = NoRet
    /\ offset = 0
    /\ image = NoImage
    /\ rd = NoRd
    /\ NoRegistry

NextGetSize == G_GetSize

SpecGetSize == InitGetSize /\ [][NextGetSize]_vars

----------------------------------------------------------------------------
(* Store.add up to line 641: the volume is created and awaited, for declared *)
(* sizes around zero, around one unit and around the largest integer a float *)
(* holds exactly.                                                            *)

MaxImageSize == 2 ^ FloatBits + 2 * Gi

InitCreate ==
    /\ image_size \in 0..MaxImageSize
    /\ src_len = 0
    /\ verifier = FALSE
    /\ timeout \in 0..MaxTimeout
    /\ Start

NextCreate == A_Create \/ W_Get \/ W_Timeout \/ W_SleepPoll \/ W_Check

SpecCreate == InitCreate /\ [][NextCreate]_vars

----------------------------------------------------------------------------
(* The rbd store (src/glance_store/_drivers/rbd.py): Store.add.  The cluster *)
(* is the environment: a call on it either raises or has its effect on the  *)
(* image.  The image's data is image.data, one entry per byte, the source   *)
(* byte's index where written and 0 elsewhere.                              *)

\* what no step of the rbd driver touches
rbdFrame == <<verifier, timeout, size_gb, buf, need_extend, failed, dev, remote,
              capacity, vol_status, sess_status, device, waitVars, hist, metadata,
              context, rd, registry>>

\* lines 336-340: with rados.Rados(...) as conn; conn.open_ioctx(self.pool)
R_Connect ==
    /\ pc = "r_connect"
    /\ calls' = Append(calls, "connect")
    /\ \E ok \in BOOLEAN :
        IF ok THEN pc' = "r_create" /\ exc' = exc
              ELSE pc' = "r_done" /\ exc' = RbdError("connect")
    /\ UNCHANGED <<rbdFrame, image_size, src_len, src_pos, bytes_written, hashed, loc,
                   returned, offset, image>>

\* image.resize(n): the data is cut or padded with zero bytes
Resize(d, n) == [i \in 1..n |-> IF i <= Len(d) THEN d[i] ELSE 0]

\* librbd.create (lines 266 and 275) raises rbd.ImageExists for a name in use
ImageExists_Mut(img) == FALSE
ImageExists(img) == img.exists

\* lines 349-354 and 253-276: _create_image; rbd.ImageExists becomes Duplicate
R_Create ==
    /\ pc = "r_create"
    /\ calls' = Append(calls, "create")
    /\ \E ok \in BOOLEAN, layering \in BOOLEAN :
        IF ImageExists(image)
        THEN /\ pc' = "r_done"
             /\ exc' = Duplicate("create")
             /\ UNCHANGED <<image, loc>>
        ELSE IF ok
        THEN /\ image' = [exists |-> TRUE, size |-> image_size,
                          data |-> Resize(<<>>, image_size), snap |-> "none"]
             /\ loc' = [kind |-> "rbd", snapshot |-> layering]
             /\ pc' = "r_open"
             /\ exc' = exc
        ELSE /\ pc' = "r_done"
             /\ exc' = RbdError("create")
             /\ UNCHANGED <<image, loc>>
    /\ UNCHANGED <<rbdFrame, image_size, src_len, src_pos, bytes_written, hashed,
                   returned, offset>>

\* lines 357-361: with rbd.Image(ioctx, image_name) as image: bytes_written = 0;
\* offset = 0; chunks = utils.chunkreadable(image_file, self.WRITE_CHUNKSIZE)
R_Open ==
    /\ pc = "r_open"
    /\ calls' = Append(calls, "open")
    /\ \E ok \in BOOLEAN :
        IF ok
        THEN /\ bytes_written' = 0
             /\ offset' = 0
             /\ pc' = "r_loop"
             /\ exc' = exc
        ELSE /\ pc' = "r_handler"
             /\ exc' = RbdError("open")
             /\ UNCHANGED <<bytes_written, offset>>
    /\ UNCHANGED <<rbdFrame, image_size, src_len, src_pos, hashed, loc, returned, image>>

\* image.write(chunk, offset) on image data d: the n bytes read last from the
\* source, which end at source position p, at offset off
RbdWrite(d, off, n, p) ==
    [i \in 1..Len(d) |-> IF i > off /\ i <= off + n THEN p - n + i - off ELSE d[i]]

\* lines 362-377: one chunk of the source: resize when the size was declared 0,
\* write at offset, feed the checksum
R_Chunk ==
    /\ pc = "r_loop"
    /\ \E o \in {"ok", "read", "resize", "write"} :
        CASE o = "read" ->
                /\ pc' = "r_handler"
                /\ exc' = IOError("EIO", "read")
                /\ UNCHANGED <<src_pos, bytes_written, hashed, offset, image, calls>>
          [] o = "ok" /\ src_pos = src_len ->
                /\ pc' = "r_snap"
                /\ UNCHANGED <<exc, src_pos, bytes_written, hashed, offset, image, calls>>
          [] o = "resize" /\ src_pos < src_len ->
                /\ image_size = 0
                /\ \E n \in 1..Min(WRITE_CHUNKSIZE, src_len - src_pos) :
                    /\ src_pos' = src_pos + n
                    /\ bytes_written' = bytes_written + n
                /\ calls' = Append(calls, "resize")
                /\ pc' = "r_handler"
                /\ exc' = RbdError("resize")
                /\ UNCHANGED <<hashed, offset, image>>
          [] o \in {"ok", "write"} /\ src_pos < src_len ->
                \E n \in 1..Min(WRITE_CHUNKSIZE, src_len - src_pos) :
                    LET resized == IF image_size = 0
                                   THEN [image EXCEPT !.size = offset + n,
                                                      !.data = Resize(@, offset + n)]
                                   ELSE image
                        fits == offset + n <= resized.size
                    IN  /\ src_pos' = src_pos + n
                        /\ bytes_written' = IF image_size = 0 THEN bytes_written + n
                                                              ELSE bytes_written
                        /\ calls' = IF image_size = 0
                                    THEN calls \o <<"resize", "write">>
                                    ELSE Append(calls, "write")
                        /\ IF o = "ok" /\ fits
                           THEN /\ image' = [resized EXCEPT !.data =
                                                RbdWrite(@, offset, n, src_pos')]
                                /\ offset' = offset + n
                                /\ hashed' = hashed \o [i \in 1..n |-> src_pos + i]
                                /\ pc' = "r_loop"
                                /\ exc' = exc
                           ELSE /\ image' = resized
                                /\ pc' = "r_handler"
                                /\ exc' = RbdError("write")
                                /\ UNCHANGED <<hashed, offset>>
          [] OTHER -> FALSE
    /\ UNCHANGED <<rbdFrame, image_size, src_len, loc, returned>>

\* lines 378-380: if loc.snapshot: image.create_snap(...); image.protect_snap(...)
R_Snap ==
    /\ pc = "r_snap"
    /\ IF loc.snapshot
       THEN \E o \in {"ok", "create_snap", "protect_snap"} :
              /\ calls' = IF o = "create_snap" THEN Append(calls, "create_snap")
                          ELSE calls \o <<"create_snap", "protect_snap">>
              /\ image' = [image EXCEPT !.snap = CASE o = "ok" -> "protected"
                                                   [] o = "create_snap" -> "none"
                                                   [] o = "protect_snap" -> "created"]
              /\ pc' = IF o = "ok" THEN "r_return" ELSE "r_handler"
              /\ exc' = IF o = "ok" THEN exc ELSE RbdError(o)
       ELSE /\ pc' = "r_return"
            /\ UNCHANGED <<exc, image, calls>>
    /\ UNCHANGED <<rbdFrame, image_size, src_len, src_pos, bytes_written, hashed, loc,
                   returned, offset>>

\* _delete_image (lines 289-316): the calls it makes on the cluster, in order: the
\* snapshot first, when the location names one, then the image
DeleteSteps(l) ==
    IF l.snapshot
    THEN <<"connect", "open", "unprotect_snap", "remove_snap", "remove">>
    ELSE <<"connect", "remove">>

RbdErrors == {"ImageNotFound", "ImageBusy", "Error"}

\* an outcome of _delete_image: <<0, "ok">>, or <<i, e>> when its i-th call raised e
DeleteOutcomes(l) == {<<0, "ok">>} \cup ((1..Len(DeleteSteps(l))) \X RbdErrors)

\* the calls made under outcome o
DeleteCalls(l, o) ==
    IF o[1] = 0 THEN DeleteSteps(l) ELSE SubSeq(DeleteSteps(l), 1, o[1])

\* lines 289-290 are outside the try block; lines 297-316 translate
\* rbd.ImageNotFound to NotFound and rbd.ImageBusy to InUseByStore
DeleteRaises_Mut(l, o) ==
    CASE o[1] = 0 -> NoErr
      [] o[2] = "ImageNotFound" -> NotFound("delete")
      [] OTHER -> RbdError("delete")
DeleteRaises(l, o) ==
    CASE o[1] = 0 -> NoErr
      [] DeleteSteps(l)[o[1]] = "connect" -> RbdError("delete")
      [] o[2] = "ImageNotFound" -> NotFound("delete")
      [] o[2] = "ImageBusy" -> InUseByStore("delete")
      [] OTHER -> RbdError("delete")

\* the image after the calls that returned
DeleteEffect(img, l, o) ==
    LET done == IF o[1] = 0 THEN DeleteSteps(l)
                ELSE SubSeq(DeleteSteps(l), 1, o[1] - 1)
    IN  IF InSeq("remove", done) THEN NoImage
        ELSE IF InSeq("remove_snap", done) THEN [img EXCEPT !.snap = "none"]
        ELSE IF InSeq("unprotect_snap", done) /\ img.snap = "protected"
        THEN [img EXCEPT !.snap = "created"]
        ELSE img

\* what add raises after the clean-up raised d (NoErr: it returned): NotFound is
\* passed over, anything else propagates in place of the original exception
HandlerRaises(e, d) == IF d = NoErr \/ d.cls = "NotFound" THEN e ELSE d

\* lines 381-390: except Exception as exc: self._delete_image(...); raise exc
R_Handler ==
    /\ pc = "r_handler"
    /\ \E o \in DeleteOutcomes(loc) :
        /\ calls' = Append(calls, "delete") \o DeleteCalls(loc, o)
        /\ image' = DeleteEffect(image, loc, o)
        /\ exc' = HandlerRaises(exc, DeleteRaises(loc, o))
    /\ pc' = "r_done"
    /\ UNCHANGED <<rbdFrame, image_size, src_len, src_pos, bytes_written, hashed, loc,
                   returned, offset>>

\* the byte count add returns (lines 393-394): the declared size, or the bytes
\* counted when it was declared 0
ReturnedSize_Mut(declared, counted) == declared
ReturnedSize(declared, counted) == IF declared = 0 THEN counted ELSE declared

\* lines 393-396: return (loc.get_uri(), image_size, checksum.hexdigest(), {})
R_Return ==
    /\ pc = "r_return"
    /\ returned' = [op |-> "add", uri |-> loc,
                    size |-> ReturnedSize(image_size, bytes_written),
                    checksum |-> hashed]
    /\ pc' = "r_done"
    /\ UNCHANGED <<rbdFrame, exc, image_size, src_len, src_pos, bytes_written, hashed,
                   loc, offset, image, calls>>

\* an image of the same name may exist already
OldImage == [exists |-> TRUE, size |-> 1, data |-> <<MaxSrc + 1>>, snap |-> "none"]

InitRbd ==
    /\ src_len \in 0..MaxSrc
    /\ image_size \in {0, 1, src_len}
    /\ verifier = FALSE
    /\ timeout = MaxTimeout
    /\ pc = "r_connect"
    /\ Fresh
    /\ context = NoContext
    /\ loc = NoLoc
    /\ returned = NoRet
    /\ offset = 0
    /\ image \in {NoImage, OldImage}
    /\ rd = NoRd
    /\ NoRegistry

NextRbd == R_Connect \/ R_Create \/ R_Open \/ R_Chunk \/ R_Snap \/ R_Handler \/ R_Return

SpecRbd == InitRbd /\ [][NextRbd]_vars

----------------------------------------------------------------------------
(* The scheme registry (src/glance_store/backend.py).  A driver is named by *)
(* its entry point; what a store instance reports is fixed by its driver.   *)

UnknownScheme(site) == Err("UnknownScheme", "-", site)
RuntimeError(site) == Err("RuntimeError", "-", site)
AttributeError(site) == Err("AttributeError", "-", site)

\* the drivers: rbd and cinder of this repository, one that reports two schemes,
\* one that reports none, and one that does not implement get_schemes
Drivers == {"rbd", "cinder", "swift", "nosch", "base"}

\* store.get_schemes() of a driver that implements it
get_schemes(d) ==
    CASE d = "rbd"    -> <<"rbd">>
      [] d = "cinder" -> <<"cinder">>
      [] d = "swift"  -> <<"swift", "swift+http">>
      [] OTHER        -> <<>>

\* get_schemes raises NotImplementedError
NotImplemented(d) == d = "base"

\* Store._CAPABILITIES includes DRIVER_REUSABLE
Reusable == {"cinder"}

\* store.is_capable(capabilities.BitMasks.DRIVER_REUSABLE)
is_capable(store) == stores[store].entry \in Reusable

\* location.register_scheme_map(scheme_map): every scheme of scheme_map is mapped to
\* its entry; scheme_map is a set of pairs <<scheme, entry>>
register_scheme_map(map, scheme_map) ==
    [k \in DOMAIN map |->
        IF \E e \in scheme_map : e[1] = k
        THEN (CHOOSE e \in scheme_map : e[1] = k)[2]
        ELSE map[k]]

\* a store instance as constructed: configure has not run
NewStore(d, t) == [entry |-> d, configured |-> "no", owner |-> t]

\* what the other steps of the program leave alone
regFrame == <<inputs, addVars, remote, capacity, vol_status, sess_status, device,
              waitVars, calls, hist, metadata, context, loc, offset, image, rd>>

\* the call of a thread has ended: the instance it constructed is its own no more
Release(st, t) == [i \in DOMAIN st |-> IF st[i].owner = t THEN [st[i] EXCEPT !.owner = 0]
                                        ELSE st[i]]

\* a thread calls get_store_from_scheme(scheme), directly or through
\* verify_default_store (lines 211-217)
G_Call(t) ==
    /\ pc = "cs_done"
    /\ thr[t].pc \in {"idle", "ret", "raised"}
    /\ Len(stores) < MaxStores
    /\ \E scheme \in SchemeNames, via \in {"direct", "verify_default_store"} :
        thr' = [thr EXCEPT ![t] = [NoThread EXCEPT !.pc = "g_lookup", !.via = via,
                                                   !.arg = scheme]]
    /\ stores' = Release(stores, t)
    /\ UNCHANGED <<regFrame, pc, exc, returned, SCHEME_TO_CLS_MAP, infos, cs>>

\* what the caller sees of UnknownScheme: verify_default_store raises RuntimeError
Unknown(via) == IF via = "verify_default_store" THEN RuntimeError("verify_default_store")
                ELSE UnknownScheme("get_store_from_scheme")

\* lines 230-232: if scheme not in location.SCHEME_TO_CLS_MAP: raise UnknownScheme;
\* scheme_info = location.SCHEME_TO_CLS_MAP[scheme].  Past line 231 the call cannot
\* raise UnknownScheme, and who made it matters no more.  The locals of a call
\* that returned are gone: they are cleared.
G_Lookup(t) ==
    /\ thr[t].pc = "g_lookup"
    /\ thr' = [thr EXCEPT ![t] =
                IF SCHEME_TO_CLS_MAP[thr[t].arg] = 0
                THEN [@ EXCEPT !.pc = "raised", !.exc = Unknown(thr[t].via)]
                ELSE [@ EXCEPT !.pc = "g_store", !.via = "none",
                               !.scheme_info = SCHEME_TO_CLS_MAP[thr[t].arg]]]
    /\ UNCHANGED <<regFrame, pc, exc, returned, SCHEME_TO_CLS_MAP, infos, stores, cs>>

\* line 234: if not store.is_capable(capabilities.BitMasks.DRIVER_REUSABLE)
MustReload_Mut(store) == TRUE
MustReload(store) == ~is_capable(store)

\* lines 233-234: store = scheme_info['store']; if not store.is_capable(...)
G_Store(t) ==
    /\ thr[t].pc = "g_store"
    /\ LET store == infos[thr[t].scheme_info].store
       IN  thr' = [thr EXCEPT ![t] =
                    IF MustReload(store)
                    THEN [@ EXCEPT !.pc = "g_load", !.store = store]
                    ELSE [@ EXCEPT !.pc = "ret", !.scheme_info = 0, !.ret = store]]
    /\ UNCHANGED <<regFrame, pc, exc, returned, SCHEME_TO_CLS_MAP, infos, stores, cs>>

\* lines 237-238 and 146-156: store = _load_store(store.conf, store_entry,
\* invoke_load=True): a new instance, or None when the driver manager raised
\* RuntimeError
\* the statement after line 238
AfterLoad_Mut == "g_schemes"
AfterLoad == "g_configure"

G_Load(t) ==
    /\ thr[t].pc = "g_load"
    /\ \E ok \in BOOLEAN :
        IF ok
        THEN /\ stores' = Append(stores, NewStore(infos[thr[t].scheme_info].store_entry, t))
             /\ thr' = [thr EXCEPT ![t].pc = AfterLoad, ![t].store = Len(stores) + 1]
        ELSE /\ thr' = [thr EXCEPT ![t].pc = "g_configure", ![t].store = 0]
             /\ UNCHANGED stores
    /\ UNCHANGED <<regFrame, pc, exc, returned, SCHEME_TO_CLS_MAP, infos, cs>>

\* line 239: store.configure(): it returns, or it raises BadStoreConfiguration; on
\* None it raises AttributeError
G_Configure(t) ==
    /\ thr[t].pc = "g_configure"
    /\ IF thr[t].store = 0
       THEN /\ thr' = [thr EXCEPT ![t] = [@ EXCEPT !.pc = "raised", !.scheme_info = 0,
                                                   !.exc = AttributeError("configure")]]
            /\ UNCHANGED stores
       ELSE \E o \in {"ok", "raised"} :
              /\ stores' = [stores EXCEPT ![thr[t].store].configured = o]
              /\ thr' = [thr EXCEPT ![t] =
                          IF o = "raised"
                          THEN [@ EXCEPT !.pc = "raised", !.scheme_info = 0, !.store = 0,
                                         !.exc = BadStoreConfiguration("configure")]
                          ELSE [@ EXCEPT !.pc = "g_schemes"]]
    /\ UNCHANGED <<regFrame, pc, exc, returned, SCHEME_TO_CLS_MAP, infos, cs>>

\* lines 240-243: scheme_map = {}; for scheme in store.get_schemes()
G_Schemes(t) ==
    /\ thr[t].pc = "g_schemes"
    /\ LET d == stores[thr[t].store].entry
       IN  thr' = [thr EXCEPT ![t] =
                    IF NotImplemented(d) THEN [@ EXCEPT !.pc = "g_fallback"]
                    ELSE IF get_schemes(d) = <<>> THEN [@ EXCEPT !.pc = "g_return"]
                    ELSE [@ EXCEPT !.pc = "g_register", !.todo = get_schemes(d)]]
    /\ UNCHANGED <<regFrame, pc, exc, returned, SCHEME_TO_CLS_MAP, infos, stores, cs>>

\* lines 243-249: one turn of the loop: scheme_map[scheme] = {...};
\* location.register_scheme_map(scheme_map)
G_Register(t) ==
    /\ thr[t].pc = "g_register"
    /\ LET scheme == Head(thr[t].todo)
           info == [store |-> thr[t].store, store_entry |-> stores[thr[t].store].entry]
           scheme_map == {e \in thr[t].scheme_map : e[1] # scheme}
                         \cup {<<scheme, Len(infos) + 1>>}
       IN  /\ infos' = Append(infos, info)
           /\ SCHEME_TO_CLS_MAP' = register_scheme_map(SCHEME_TO_CLS_MAP, scheme_map)
           /\ thr' = [thr EXCEPT ![t].scheme_map = scheme_map,
                                 ![t].todo = Tail(@),
                                 ![t].pc = IF Len(thr[t].todo) = 1 THEN "g_return"
                                           ELSE "g_register"]
    /\ UNCHANGED <<regFrame, pc, exc, returned, stores, cs>>

\* lines 250-251: except NotImplementedError: scheme_info['store'] = store
G_Fallback(t) ==
    /\ thr[t].pc = "g_fallback"
    /\ infos' = [infos EXCEPT ![thr[t].scheme_info].store = thr[t].store]
    /\ thr' = [thr EXCEPT ![t].pc = "g_return"]
    /\ UNCHANGED <<regFrame, pc, exc, returned, SCHEME_TO_CLS_MAP, stores, cs>>

\* line 252: return store
Returned_Mut(th) == infos[th.scheme_info].store
Returned(th) == th.store

G_Return(t) ==
    /\ thr[t].pc = "g_return"
    /\ thr' = [thr EXCEPT ![t] = [@ EXCEPT !.pc = "ret", !.ret = Returned(thr[t]),
                                            !.scheme_info = 0, !.store = 0,
                                            !.scheme_map = {}]]
    /\ UNCHANGED <<regFrame, pc, exc, returned, SCHEME_TO_CLS_MAP, infos, stores, cs>>

\* the registry after create_stores registered cinder and swift and the application
\* registered, under the scheme x, a store of a driver without get_schemes
InitResolve ==
    /\ pc = "cs_done"
    /\ image_size = 0 /\ src_len = 0 /\ verifier = FALSE /\ timeout = MaxTimeout
    /\ Fresh
    /\ context = NoContext /\ loc = NoLoc /\ offset = 0 /\ image = NoImage /\ rd = NoRd
    /\ returned = [op |-> "create_stores", value |-> 2]
    /\ stores = <<[entry |-> "cinder", configured |-> "ok", owner |-> 0],
                  [entry |-> "swift", configured |-> "ok", owner |-> 0],
                  [entry |-> "base", configured |-> "ok", owner |-> 0]>>
    /\ infos = <<[store |-> 1, store_entry |-> "cinder"],
                 [store |-> 2, store_entry |-> "swift"],
                 [store |-> 2, store_entry |-> "swift"],
                 [store |-> 3, store_entry |-> "base"]>>
    /\ SCHEME_TO_CLS_MAP = [k \in SchemeNames |->
                              CASE k = "cinder" -> 1 [] k = "swift" -> 2
                                [] k = "swift+http" -> 3 [] k = "x" -> 4 [] OTHER -> 0]
    /\ cs = NoCs
    /\ \E n \in 1..2 : thr = [t \in Threads |-> IF t <= n THEN [NoThread EXCEPT !.pc = "idle"]
                                                ELSE NoThread]

NextResolve ==
    \E t \in Threads :
        \/ G_Call(t) \/ G_Lookup(t) \/ G_Store(t) \/ G_Load(t) \/ G_Configure(t)
        \/ G_Schemes(t) \/ G_Register(t) \/ G_Fallback(t) \/ G_Return(t)

SpecResolve == InitResolve /\ [][NextResolve]_vars

----------------------------------------------------------------------------
(* create_stores and _load_stores (src/glance_store/backend.py, lines 146-208). *)

\* line 206: store_count += 1
Counted_Mut(n) == n
Counted(n) == n + 1

\* line 187: if not schemes
NoSchemes_Mut(schemes) == FALSE
NoSchemes(schemes) == schemes = <<>>

\* lines 159-173 and 146-156: the next entry of set(conf.glance_store.stores), in any
\* order; _load_store gives an instance, or None (the driver manager raised
\* RuntimeError), or BadStoreConfiguration comes out of it; the last two are passed
\* over.  When the entries are used up create_stores returns store_count (line 208).
CS_Load ==
    /\ pc = "cs_load"
    /\ IF cs.todo = {}
       THEN /\ pc' = "cs_done"
            /\ returned' = [op |-> "create_stores", value |-> cs.store_count]
            /\ UNCHANGED <<cs, stores>>
       ELSE \E d \in cs.todo, o \in {"ok", "none", "bsc"} :
              /\ cs' = [cs EXCEPT !.todo = @ \ {d},
                                  !.store_entry = IF o = "ok" THEN d ELSE "none",
                                  !.store_instance = IF o = "ok" THEN Len(stores) + 1 ELSE 0,
                                  !.bsc = IF o = "bsc" THEN @ \cup {d} ELSE @,
                                  !.loaded = IF o = "ok" THEN @ \cup {d} ELSE @]
              /\ stores' = IF o = "ok" THEN Append(stores, NewStore(d, 0)) ELSE stores
              /\ pc' = IF o = "ok" THEN "cs_register" ELSE "cs_load"
              /\ UNCHANGED returned
    /\ UNCHANGED <<regFrame, exc, SCHEME_TO_CLS_MAP, infos, thr>>

\* the entries made at lines 197-204 for the schemes of the store, appended to the
\* entries made so far
NewInfos(schemes, store, d) ==
    [i \in 1..Len(schemes) |-> [store |-> store, store_entry |-> d]]

\* lines 181-206: schemes = store_instance.get_schemes(); configure(re_raise_bsc=
\* False), which returns also when it met a configuration error; a store without
\* get_schemes is passed over; one without schemes is an error; any other is
\* registered for all its schemes and counted
CS_Register ==
    /\ pc = "cs_register"
    /\ LET d == cs.store_entry
           schemes == get_schemes(d)
       IN  IF NotImplemented(d)
           THEN /\ pc' = "cs_load"
                /\ UNCHANGED <<exc, SCHEME_TO_CLS_MAP, infos, stores>>
                /\ cs' = [cs EXCEPT !.store_entry = "none", !.store_instance = 0]
           ELSE \E o \in {"ok", "degraded"} :
                  /\ stores' = [stores EXCEPT ![cs.store_instance].configured = o]
                  /\ IF NoSchemes(schemes)
                     THEN /\ pc' = "cs_done"
                          /\ exc' = BackendException("create_stores")
                          /\ UNCHANGED <<SCHEME_TO_CLS_MAP, infos, cs>>
                     ELSE /\ infos' = infos \o NewInfos(schemes, cs.store_instance, d)
                          /\ SCHEME_TO_CLS_MAP' = register_scheme_map(SCHEME_TO_CLS_MAP,
                                {<<schemes[i], Len(infos) + i>> : i \in 1..Len(schemes)})
                          /\ cs' = [cs EXCEPT !.store_count = Counted(@),
                                              !.store_entry = "none",
                                              !.store_instance = 0]
                          /\ pc' = "cs_load"
                          /\ exc' = exc
    /\ UNCHANGED <<regFrame, returned, thr>>

\* any set of configured stores
InitCreateStores ==
    /\ pc = "cs_load"
    /\ image_size = 0 /\ src_len = 0 /\ verifier = FALSE /\ timeout = MaxTimeout
    /\ Fresh
    /\ context = NoContext /\ loc = NoLoc /\ offset = 0 /\ image = NoImage /\ rd = NoRd
    /\ returned = NoRet
    /\ SCHEME_TO_CLS_MAP = [k \in SchemeNames |-> 0]
    /\ infos = <<>>
    /\ stores = <<>>
    /\ \E conf \in SUBSET Drivers : cs = [NoCs EXCEPT !.todo = conf, !.conf = conf]
    /\ thr = [t \in Threads |-> NoThread]

NextCreateStores == CS_Load \/ CS_Register

SpecCreateStores == InitCreateStores /\ [][NextCreateStores]_vars

----------------------------------------------------------------------------
(* Store locations and their URIs (rbd.py, lines 73-140 and 253-276; cinder.py,
   lines 348-371).  A string is the sequence of its byte codes. *)

Slash == 47
Percent == 37
\* 'rbd://', 'cinder://', str(None) and 'snap'
RbdPrefix == <<114, 98, 100, 58, 47, 47>>
CinderPrefix == <<99, 105, 110, 100, 101, 114, 58, 47, 47>>
NoneText == <<78, 111, 110, 101>>
DEFAULT_SNAPNAME == <<115, 110, 97, 112>>

\* the strings over an alphabet, up to a length
Strings(alphabet, n) == UNION {[1..k -> alphabet] : k \in 0..n}

\* s[n:]
From(s, n) == SubSeq(s, n + 1, Len(s))

startswith(s, prefix) == Len(s) >= Len(prefix) /\ SubSeq(s, 1, Len(prefix)) = prefix

\* s.split('/')
RECURSIVE split(_)
split(s) ==
    IF ~InSeq(Slash, s) THEN <<s>>
    ELSE LET i == CHOOSE i \in 1..Len(s) : s[i] = Slash /\ \A j \in 1..(i - 1) : s[j] # Slash
         IN  <<SubSeq(s, 1, i - 1)>> \o split(From(s, i))

\* '/'.join(pieces)
RECURSIVE Join(_)
Join(pieces) ==
    IF Len(pieces) = 0 THEN <<>>
    ELSE IF Len(pieces) = 1 THEN pieces[1]
    ELSE pieces[1] \o <<Slash>> \o Join(Tail(pieces))

\* urllib.quote(s, ''): letters, digits and '_', '.', '-' as they are, every other
\* byte as '%' and its two upper-case hexadecimal digits
always_safe == (48..57) \cup (65..90) \cup (97..122) \cup {95, 46, 45}
UpperHex == (48..57) \cup (65..70)
LowerHex == (48..57) \cup (97..102)
HexDigit(n) == IF n < 10 THEN 48 + n ELSE 55 + n
RECURSIVE quote(_)
quote(s) ==
    IF s = <<>> THEN <<>>
    ELSE (IF Head(s) \in always_safe THEN <<Head(s)>>
          ELSE <<Percent, HexDigit(Head(s) \div 16), HexDigit(Head(s) % 16)>>)
         \o quote(Tail(s))

\* urllib.unquote(s): '%' and two hexadecimal digits of either case become the byte;
\* a '%' followed by anything else stays
HexValue(c) ==
    IF c \in 48..57 THEN c - 48
    ELSE IF c \in 65..70 THEN c - 55
    ELSE IF c \in 97..102 THEN c - 87
    ELSE -1
RECURSIVE unquote(_)
unquote(s) ==
    IF s = <<>> THEN <<>>
    ELSE IF /\ Head(s) = Percent /\ Len(s) >= 3
            /\ HexValue(s[2]) >= 0 /\ HexValue(s[3]) >= 0
         THEN <<16 * HexValue(s[2]) + HexValue(s[3])>> \o unquote(From(s, 3))
         ELSE <<Head(s)>> \o unquote(Tail(s))

\* '%s' % value
Text(value) == IF value.has THEN value.value ELSE NoneText
\* the value is true in a condition: neither None nor ''
Truthy(value) == value.has /\ value.value # <<>>

Keys == {"fsid", "pool", "image", "snapshot"}

\* rbd.py, lines 84-91: every spec given becomes str(value), None becoming 'None'; an
\* attribute whose spec is not given is None
process_specs(specs) ==
    [k \in Keys |-> IF k \in DOMAIN specs THEN Present(Text(specs[k])) ELSE Absent]

\* rbd.py, lines 102-103
ImageOnly_Mut(value) == RbdPrefix \o quote(Text(value))
ImageOnly(value) == RbdPrefix \o Text(value)

\* rbd.py, lines 93-103
rbd_get_uri(l) ==
    IF Truthy(l.fsid) /\ Truthy(l.pool) /\ Truthy(l.snapshot)
    THEN RbdPrefix \o Join(<<quote(l.fsid.value), quote(l.pool.value),
                             quote(Text(l.image)), quote(l.snapshot.value)>>)
    ELSE ImageOnly(l.image)

Rejected == [ok |-> FALSE, fields |-> <<>>]
Parsed(l) == [ok |-> TRUE, fields |-> l]

\* rbd.py, line 135: any(map(lambda p: p == '', pieces))
HasEmpty_Mut(pieces) == FALSE
HasEmpty(pieces) == \E i \in 1..Len(pieces) : pieces[i] = <<>>

\* rbd.py, lines 105-140
rbd_parse_uri(uri) ==
    IF ~startswith(uri, RbdPrefix) THEN Rejected
    ELSE LET pieces == split(From(uri, Len(RbdPrefix)))
         IN  IF Len(pieces) \notin {1, 4} THEN Rejected
             ELSE IF HasEmpty(pieces) THEN Rejected
             ELSE IF Len(pieces) = 1
                  THEN Parsed([fsid |-> Absent, pool |-> Absent,
                               image |-> Present(pieces[1]), snapshot |-> Absent])
                  ELSE Parsed([fsid |-> Present(unquote(pieces[1])),
                               pool |-> Present(unquote(pieces[2])),
                               image |-> Present(unquote(pieces[3])),
                               snapshot |-> Present(unquote(pieces[4]))])

\* utils.is_uuid_like, on identifiers of UuidLen characters in place of 36: lower-case
\* hexadecimal digits with a '-' at the second place
is_uuid_like(s) ==
    /\ Len(s) = UuidLen
    /\ \A i \in 1..Len(s) : IF i = 2 THEN s[i] = 45 ELSE s[i] \in LowerHex

\* cinder.py, lines 356-357
cinder_get_uri(l) == CinderPrefix \o Text(l.volume_id)

\* cinder.py, lines 359-371
cinder_parse_uri(uri) ==
    IF ~startswith(uri, CinderPrefix) THEN Rejected
    ELSE LET volume_id == From(uri, 9)
         IN  IF ~is_uuid_like(volume_id) THEN Rejected
             ELSE Parsed([volume_id |-> Present(volume_id)])

get_uri(scheme, l) == IF scheme = "rbd" THEN rbd_get_uri(l) ELSE cinder_get_uri(l)
parse_uri(scheme, uri) == IF scheme = "rbd" THEN rbd_parse_uri(uri) ELSE cinder_parse_uri(uri)

uriFrame == <<inputs, addVars, remote, capacity, vol_status, sess_status, device,
              waitVars, calls, hist, metadata, context, loc, offset, image, rd, registry>>

\* get_uri of the location given, or of the location parse_uri made
U_GetUri ==
    /\ pc \in {"location", "parsed"}
    /\ exc = NoErr
    /\ returned' = [op |-> "get_uri",
                    uri |-> get_uri(loc.scheme, IF pc = "location" THEN loc.fields
                                                ELSE returned.fields)]
    /\ pc' = IF pc = "location" THEN "formatted" ELSE "reformatted"
    /\ UNCHANGED <<uriFrame, exc>>

\* parse_uri of the URI given, or of the URI get_uri made
U_ParseUri ==
    /\ pc \in {"uri", "formatted"}
    /\ LET r == parse_uri(loc.scheme, IF pc = "uri" THEN loc.uri ELSE returned.uri)
       IN  /\ exc' = IF r.ok THEN NoErr ELSE BadStoreUri
           /\ returned' = IF r.ok THEN [op |-> "parse_uri", fields |-> r.fields]
                          ELSE returned
    /\ pc' = IF pc = "uri" THEN "parsed" ELSE "reparsed"
    /\ UNCHANGED uriFrame

\* the names of fsids, pools and images
Names == Strings({Slash, Percent, 50}, MaxName) \ {<<>>}

\* rbd.py, lines 263-276: the specs of the locations _create_image makes, with the
\* fsid of the cluster or None, for an image of the new and of the old format
CreatedSpecs ==
    {[fsid |-> f, pool |-> Present(p), image |-> Present(i),
      snapshot |-> Present(DEFAULT_SNAPNAME)] :
        f \in {Absent} \cup {Present(n) : n \in Names}, p \in Names, i \in Names}
    \cup {[image |-> Present(i)] : i \in Names}

\* URIs of up to MaxPieces components, one of them any string of '%', '2', '3', 'F'
\* and 'f' up to MaxPiece characters and each other one '2'
Pieces == Strings({Percent, 50, 51, 70, 102}, MaxPiece)
Components ==
    UNION {{[i \in 1..n |-> IF i = k THEN p ELSE <<50>>] : k \in 1..n, p \in Pieces} :
           n \in 1..MaxPieces}
RbdUris == {RbdPrefix \o Join(c) : c \in Components}
CinderUris == {CinderPrefix \o s : s \in Strings({45, 50, 70, 102}, UuidLen)}

InitUri ==
    /\ image_size = 0 /\ src_len = 0 /\ verifier = FALSE /\ timeout = MaxTimeout
    /\ Fresh
    /\ context = NoContext /\ offset = 0 /\ image = NoImage /\ rd = NoRd
    /\ returned = NoRet
    /\ NoRegistry
    /\ \E given \in {"location", "uri"} :
          /\ pc = given
          /\ IF given = "location"
             THEN \E specs \in CreatedSpecs :
                    loc = [kind |-> "StoreLocation", scheme |-> "rbd",
                           fields |-> process_specs(specs)]
             ELSE \E scheme \in {"rbd", "cinder"}, uri \in RbdUris \cup CinderUris :
                    loc = [kind |-> "uri", scheme |-> scheme, uri |-> uri]

NextUri == U_GetUri \/ U_ParseUri

SpecUri == InitUri /\ [][NextUri]_vars

----------------------------------------------------------------------------
(* Store.get of the cinder driver and the iterator it returns (cinder.py, lines
   511-573).  The attachment session of the iterator is taken as a whole: it
   opens the device or fails. *)

getFrame == <<inputs, src_pos, size_gb, bytes_written, buf, need_extend, failed, hashed,
              dev, remote, capacity, vol_status, sess_status, device, waitVars, hist,
              metadata, context, loc, offset, image, registry>>

\* lines 564-572: what get raises for what its try block raised.  The handler of
\* NotFound reads volume.id, and volume is not bound when volumes.get raised; the
\* handler of ClientException formats '%(volume_id): %(error)s', where ':' is no
\* conversion.
GetRaises(e) ==
    IF e.cls = "NotFound" THEN UnboundLocalError("volume.id")
    ELSE IF e.cls = "ClientException" THEN ValueError("format")
    ELSE e

\* line 563: chunk_size or size
ReportedSize(chunk_size, size) ==
    IF chunk_size.has /\ chunk_size.value # 0 THEN chunk_size.value ELSE size

\* lines 553-572: Store.get
C_Get ==
    /\ pc = "get"
    /\ \E o \in {"ok", "client", "get"} :
        LET checked == CheckContext(context, FALSE)
            reply == IF o = "get" THEN ClientException("get")
                     ELSE IF ~Known(loc.volume_id) THEN NotFound("get")
                     ELSE NoErr
            found == SizeOfVolume(metadata, capacity)
            tried == IF o = "client" THEN ClientException("get_cinderclient")
                     ELSE IF reply # NoErr THEN reply
                     ELSE found[2]
            e == IF checked # NoErr THEN checked ELSE GetRaises(tried)
            asked == checked = NoErr /\ o # "client"
        IN  /\ calls' = IF asked THEN Append(calls, "volumes.get") ELSE calls
            /\ exc' = e
            /\ rd' = [rd EXCEPT !.reply = IF ~asked THEN "none"
                                          ELSE IF reply = NoErr THEN "ok" ELSE reply.cls,
                                !.max_size = IF e = NoErr THEN found[1] ELSE @,
                                !.partial_length = IF e = NoErr THEN rd.chunk_size ELSE @]
            /\ returned' = IF e = NoErr
                           THEN [op |-> "get", size |-> ReportedSize(rd.chunk_size, found[1])]
                           ELSE returned
            /\ pc' = IF e = NoErr THEN "it_open" ELSE "get_done"
    /\ UNCHANGED getFrame

\* lines 515-518: the first next() of the iterator opens the volume and seeks
IT_Open ==
    /\ pc = "it_open"
    /\ \E ok \in BOOLEAN :
        IF ok
        THEN /\ rd' = IF rd.offset # 0
                      THEN [rd EXCEPT !.pos = rd.offset, !.max_size = @ - rd.offset]
                      ELSE rd
             /\ pc' = "it_read"
             /\ exc' = exc
        ELSE /\ exc' = BackendException("open_cinder_volume")
             /\ pc' = "it_done"
             /\ rd' = rd
    /\ UNCHANGED <<getFrame, calls, returned>>

\* the bytes fp.read(size) gives at position pos: up to the end of the device, and
\* all of the rest when size is negative
ReadCount(size, pos) ==
    LET rest == Max(0, capacity * Gi - pos)
    IN  IF size < 0 THEN rest ELSE Min(size, rest)

\* lines 520-523: the size of the next read
NextSize(r) ==
    IF r.partial_length.has
    THEN Min(Min(READ_CHUNKSIZE, r.partial_length.value), r.max_size)
    ELSE Min(READ_CHUNKSIZE, r.max_size)

\* lines 519-536: one turn of the loop
IT_Read ==
    /\ pc = "it_read"
    /\ \E ok \in BOOLEAN :
        LET count == ReadCount(NextSize(rd), rd.pos)
            chunk == [i \in 1..count |-> IF rd.pos + i \in DOMAIN dev
                                            THEN dev[rd.pos + i] ELSE 0]
            left == rd.max_size - count
            partial == rd.partial_length.has
        IN  IF ~ok
            THEN /\ exc' = IOError("EIO", "read")
                 /\ pc' = "it_done"
                 /\ rd' = rd
            ELSE /\ exc' = exc
                 /\ IF count = 0
                    THEN pc' = "it_done" /\ rd' = rd
                    ELSE /\ rd' = [rd EXCEPT
                                 !.out = Append(@, chunk),
                                 !.pos = @ + count,
                                 !.max_size = left,
                                 !.partial_length =
                                     IF partial /\ left > 0 THEN Present(@.value - count)
                                     ELSE @]
                         /\ pc' = IF left <= 0 THEN "it_done"
                                  ELSE IF partial /\ rd.partial_length.value - count <= 0
                                  THEN "it_done"
                                  ELSE "it_read"
    /\ UNCHANGED <<getFrame, calls, returned>>

----------------------------------------------------------------------------
(* Store.delete of the cinder driver (cinder.py, lines 712-735). *)

\* lines 729-735: what delete raises for what its try block raised
DeleteHandler(e) ==
    IF e.cls = "NotFound" THEN NotFound("delete")
    ELSE IF e.cls = "ClientException" THEN BackendException("delete")
    ELSE e

\* lines 726-728: volume.delete() is reached when volumes.get returned
Fetched_Mut(reply) == TRUE
Fetched(reply) == reply = NoErr

\* lines 723-735: Store.delete.  The service may fail the fetch or the delete, and
\* the volume may be gone by the time of the delete.
C_Delete ==
    /\ pc = "delete"
    /\ pc' = "delete_done"
    /\ \E o \in {"ok", "client", "get", "delete", "gone"} :
        LET checked == CheckContext(context, FALSE)
            asked == checked = NoErr /\ o # "client"
            reply == IF o = "get" THEN ClientException("get")
                     ELSE IF ~Known(loc.volume_id) THEN NotFound("get")
                     ELSE NoErr
            issued == asked /\ Fetched(reply)
            deleted == IF o = "delete" THEN ClientException("delete")
                       ELSE IF o = "gone" THEN NotFound("delete")
                       ELSE NoErr
            tried == IF o = "client" THEN ClientException("get_cinderclient")
                     ELSE IF reply # NoErr THEN reply
                     ELSE deleted
        IN  /\ calls' = calls \o (IF asked THEN <<"volumes.get">> ELSE <<>>)
                              \o (IF issued THEN <<"delete">> ELSE <<>>)
            /\ exc' = IF checked # NoErr THEN checked ELSE DeleteHandler(tried)
            /\ rd' = [rd EXCEPT !.reply = IF ~asked THEN "none"
                                          ELSE IF reply = NoErr THEN "ok" ELSE reply.cls,
                                !.deleted = IF ~issued THEN "none"
                                            ELSE IF deleted = NoErr THEN "ok"
                                            ELSE deleted.cls]
            /\ remote' = IF issued /\ deleted = NoErr /\ Known(loc.volume_id)
                         THEN "deleting" ELSE remote
    /\ UNCHANGED <<inputs, addVars, capacity, vol_status, sess_status, device, waitVars,
                   hist, metadata, context, loc, returned, offset, image, registry>>

\* lines 621-622 of add: _check_context(context, require_tenant=True) and
\* get_cinderclient, before the volume is created
A_Enter ==
    /\ pc = "enter"
    /\ \E ok \in BOOLEAN :
        LET checked == CheckContext(context, TRUE)
        IN  /\ exc' = IF checked # NoErr THEN checked
                      ELSE IF ok THEN NoErr
                      ELSE ClientException("get_cinderclient")
            /\ pc' = IF exc' = NoErr THEN "create" ELSE "done"
    /\ UNCHANGED <<inputs, others, metadata, addVars, remote, capacity, vol_status,
                   sess_status, device, waitVars, calls, hist>>

\* a volume record of the service and a location of the cinder scheme
AnyVolume ==
    /\ remote \in {"none", "available", "in-use"}
    /\ capacity \in IF remote = "none" THEN {0} ELSE 1..MaxCapacity
    /\ metadata \in IF remote = "none" THEN {Absent} ELSE MetadataValues
    /\ loc \in {[kind |-> "cinder", volume_id |-> v] : v \in 1..2}

\* the state get or delete starts in: the device holds the byte i at offset i - 1
Stored ==
    /\ Locals
    /\ dev = [i \in 1..MaxSrc |-> i]
    /\ image_size = 0 /\ src_len = 0 /\ verifier = FALSE /\ timeout = MaxTimeout
    /\ AnyVolume
    /\ returned = NoRet /\ offset = 0 /\ image = NoImage
    /\ NoRegistry

\* get with any offset, any chunk_size or none, any context
InitGet ==
    /\ pc = "get"
    /\ Stored
    /\ context \in Contexts
    /\ \E o \in 0..MaxSrc, n \in {Absent} \cup {Present(k) : k \in 0..MaxSrc} :
          rd = [NoRd EXCEPT !.offset = o, !.chunk_size = n]

NextGet == C_Get \/ IT_Open \/ IT_Read

SpecGet == InitGet /\ [][NextGet]_vars

InitDelete ==
    /\ pc = "delete"
    /\ Stored
    /\ context \in Contexts
    /\ rd = NoRd

NextDelete == C_Delete

SpecDelete == InitDelete /\ [][NextDelete]_vars

\* every operation of the cinder store, with any context
InitOps ==
    /\ context \in Contexts
    /\ \E op \in {"enter", "get", "get_size", "delete"} :
          /\ pc = op
          /\ IF op = "enter"
             THEN /\ src_len \in 0..MaxSrc
                  /\ image_size \in {0, 1, src_len}
                  /\ verifier \in BOOLEAN
                  /\ timeout = MaxTimeout
                  /\ Fresh
                  /\ loc = NoLoc /\ returned = NoRet /\ offset = 0 /\ image = NoImage
                  /\ rd = NoRd
                  /\ NoRegistry
             ELSE /\ Stored
                  /\ \E o \in 0..1, n \in {Absent, Present(1)} :
                        rd = [NoRd EXCEPT !.offset = IF op = "get" THEN o ELSE 0,
                                          !.chunk_size = IF op = "get" THEN n ELSE Absent]

NextOps == A_Enter \/ Next \/ NextGet \/ NextDelete

SpecOps == InitOps /\ [][NextOps]_vars

----------------------------------------------------------------------------
(* Store.get of the rbd driver (rbd.py, lines 143-174 and 212-251), behind the
   check of the capabilities of the store. *)

StoreRandomGetNotSupported == Err("StoreRandomGetNotSupported", "-", "capabilities.check")

\* rbd.py, line 180, and cinder.py, lines 396-398: the bits of _CAPABILITIES
Capabilities_Mut(d) == {"READ_ACCESS", "READ_OFFSET", "READ_CHUNK", "WRITE_ACCESS"}
Capabilities(d) ==
    IF d = "cinder"
    THEN {"READ_ACCESS", "READ_OFFSET", "READ_CHUNK", "WRITE_ACCESS", "DRIVER_REUSABLE"}
    ELSE {"READ_ACCESS", "WRITE_ACCESS"}

\* capabilities.check on get: reading needs READ_ACCESS, a nonzero offset READ_OFFSET
\* and a nonzero chunk_size READ_CHUNK; a missing bit is an error before get runs
Gate(d, off, chunk_size) ==
    LET needed == {"READ_ACCESS"}
                  \cup (IF off # 0 THEN {"READ_OFFSET"} ELSE {})
                  \cup (IF chunk_size.has /\ chunk_size.value # 0 THEN {"READ_CHUNK"}
                        ELSE {})
    IN  IF needed \subseteq Capabilities(d) THEN NoErr ELSE StoreRandomGetNotSupported

rbdGetFrame == <<inputs, addVars, remote, capacity, vol_status, sess_status, device,
                 waitVars, hist, metadata, context, loc, offset, image, registry>>

\* lines 212-225 and 227-251: get returns an iterator and get_size(location), which
\* connects to the cluster and reads the size of the image
RG_Get ==
    /\ pc = "rbd_get"
    /\ LET gate == Gate("rbd", rd.offset, rd.chunk_size)
       IN  IF gate # NoErr
           THEN /\ exc' = gate
                /\ pc' = "rbd_get_done"
                /\ UNCHANGED <<calls, returned>>
           ELSE \E ok \in BOOLEAN :
                  /\ calls' = calls \o (IF ok THEN <<"connect", "stat">> ELSE <<"connect">>)
                  /\ exc' = IF ~ok THEN RbdError("connect")
                            ELSE IF ~image.exists THEN NotFound("get_size")
                            ELSE NoErr
                  /\ returned' = IF exc' = NoErr THEN [op |-> "get", size |-> image.size]
                                 ELSE returned
                  /\ pc' = IF exc' = NoErr THEN "rbd_iter" ELSE "rbd_get_done"
    /\ UNCHANGED <<rbdGetFrame, rd>>

\* the chunks of q that hold no byte
EmptyChunks(q) == Len(SelectSeq(q, LAMBDA c : c = <<>>))

\* image.read(offset, length) may return fewer bytes than asked for, down to none;
\* the reads that return nothing are counted up to MaxEmptyReads
ReadLengths(length, out) ==
    (IF EmptyChunks(out) < MaxEmptyReads THEN {0} ELSE {}) \cup 1..length

\* line 169: bytes_left -= len(data); pos is size - bytes_left
Consumed(pos, length, n) == pos + n

\* lines 156-174: ImageIterator.__iter__, one turn of the loop: a read of
\* min(chunk_size, bytes_left) bytes at size - bytes_left, and the chunk yielded; the
\* image may have been removed since get returned
RG_Iter ==
    /\ pc = "rbd_iter"
    /\ \E ok \in BOOLEAN :
        LET bytes_left == image.size - rd.pos
            length == Min(READ_CHUNKSIZE, bytes_left)
        IN  IF ~ok
            THEN /\ exc' = NotFound("ImageIterator")
                 /\ pc' = "rbd_get_done"
                 /\ UNCHANGED <<rd, calls>>
            ELSE /\ exc' = exc
                 /\ IF bytes_left > 0
                    THEN /\ \E n \in ReadLengths(length, rd.out) :
                              rd' = [rd EXCEPT
                                       !.out = Append(@, SubSeq(image.data, rd.pos + 1,
                                                                rd.pos + n)),
                                       !.pos = Consumed(rd.pos, length, n)]
                         /\ calls' = Append(calls, "read")
                         /\ pc' = "rbd_iter"
                    ELSE /\ pc' = "rbd_get_done"
                         /\ UNCHANGED <<rd, calls>>
    /\ UNCHANGED <<rbdGetFrame, returned>>

\* the images the cluster may hold
StoredImages ==
    {NoImage} \cup {[exists |-> TRUE, size |-> n, data |-> [i \in 1..n |-> i], snap |-> sn] :
                       n \in 0..MaxSrc, sn \in {"none", "protected"}}

\* get with any offset and any chunk_size or none
InitRbdGet ==
    /\ pc = "rbd_get"
    /\ image_size = 0 /\ src_len = 0 /\ verifier = FALSE /\ timeout = MaxTimeout
    /\ Fresh
    /\ context = NoContext /\ loc = NoLoc /\ offset = 0
    /\ returned = NoRet
    /\ image \in StoredImages
    /\ NoRegistry
    /\ \E o \in 0..MaxSrc, n \in {Absent} \cup {Present(k) : k \in 0..MaxSrc} :
          rd = [NoRd EXCEPT !.offset = o, !.chunk_size = n]

NextRbdGet == RG_Get \/ RG_Iter

SpecRbdGet == InitRbdGet /\ [][NextRbdGet]_vars

----------------------------------------------------------------------------
(* Store.delete of the rbd driver (rbd.py, lines 398-412 and 278-316). *)

\* lines 410-412: loc = location.store_location; self._delete_image(target_pool,
\* loc.image, loc.snapshot); rd keeps which call raised, and what
RD_Delete ==
    /\ pc = "rbd_delete"
    /\ pc' = "rbd_delete_done"
    /\ \E o \in DeleteOutcomes(loc) :
        /\ calls' = calls \o DeleteCalls(loc, o)
        /\ image' = DeleteEffect(image, loc, o)
        /\ exc' = DeleteRaises(loc, o)
        /\ rd' = [rd EXCEPT !.pos = o[1], !.reply = o[2]]
    /\ UNCHANGED <<rbdGetFrame, returned>>

\* delete of a location with or without a snapshot name, the image there or not
InitRbdDelete ==
    /\ pc = "rbd_delete"
    /\ image_size = 0 /\ src_len = 0 /\ verifier = FALSE /\ timeout = MaxTimeout
    /\ Fresh
    /\ context = NoContext /\ offset = 0
    /\ loc \in {[kind |-> "rbd", snapshot |-> sn] : sn \in BOOLEAN}
    /\ returned = NoRet
    /\ image \in StoredImages
    /\ NoRegistry
    /\ rd = NoRd

NextRbdDelete == RD_Delete

SpecRbdDelete == InitRbdDelete /\ [][NextRbdDelete]_vars

----------------------------------------------------------------------------
(* Store.add of either driver. *)

InitAdd == Init \/ InitRbd

NextAdd == Next \/ NextRbd

SpecAdd == InitAdd /\ [][NextAdd]_vars

----------------------------------------------------------------------------
(* Store.add of the filesystem driver with filesystem_store_datadirs          *)
(* (glance_store/_drivers/filesystem.py; exercised by                        *)
(* tests/unit/test_filesystem_store.py, lines 538-612).  rd holds the        *)
(* configured datadirs, the candidates in the order they are tried, the      *)
(* free space found for each candidate tried, the directory chosen and, for  *)
(* every directory, the file of the image there.                             *)

Dirs == {"A", "B", "C"}
Priorities == {100, 200}
Datadir(d, p) == [dir |-> d, priority |-> p]

\* the values filesystem_store_datadirs may have: one to three 'dir:priority' entries
Datadirs ==
    UNION {[1..n -> {Datadir(d, p) : d \in Dirs, p \in Priorities}] :
              n \in 1..Cardinality(Dirs)}

\* the same directory is given twice
Repeated(datadirs) ==
    \E i, j \in 1..Len(datadirs) : i < j /\ datadirs[i].dir = datadirs[j].dir

\* the priorities in descending order
RECURSIVE priority_list(_)
priority_list(S) ==
    IF S = {} THEN <<>>
    ELSE LET m == CHOOSE x \in S : \A y \in S : y <= x
         IN  <<m>> \o priority_list(S \ {m})

\* the directories given with priority p, left to right
priority_data_map(datadirs, p) ==
    LET at == SelectSeq(datadirs, LAMBDA e : e.priority = p)
    IN  [i \in 1..Len(at) |-> at[i].dir]

RECURSIVE CandidatesOf(_, _)
CandidatesOf(datadirs, prios) ==
    IF prios = <<>> THEN <<>>
    ELSE priority_data_map(datadirs, Head(prios)) \o CandidatesOf(datadirs, Tail(prios))

\* the candidates: descending priority, the directories of one priority left to right
Candidates(datadirs) ==
    CandidatesOf(datadirs, priority_list({datadirs[i].priority : i \in 1..Len(datadirs)}))

\* a candidate is passed over when its free space is less than the declared size
HasSpace_Mut(free, size) == free > size
HasSpace(free, size) == free >= size

\* what add raises for the errno of a failed write
FsRaises(errno) ==
    IF errno \in {"ENOSPC", "EFBIG"} THEN StorageFull("write")
    ELSE IF errno = "EACCES" THEN StorageWriteDenied("write")
    ELSE IOError(errno, "write")

fsFrame == <<inputs, addVars, remote, capacity, vol_status, sess_status, device,
             waitVars, hist, metadata, context, offset, image, registry, returned>>

\* configure_add: the datadirs are ranked; a directory given twice is refused
FS_Configure ==
    /\ pc = "fs_configure"
    /\ IF Repeated(rd.datadirs)
       THEN /\ exc' = BadStoreConfiguration("datadirs")
            /\ pc' = "fs_done"
            /\ rd' = rd
       ELSE /\ exc' = exc
            /\ pc' = "fs_find"
            /\ rd' = [rd EXCEPT !.candidates = Candidates(rd.datadirs)]
    /\ UNCHANGED <<fsFrame, loc, calls>>

\* add, one candidate: with a declared size of zero the first candidate is taken
\* unchecked; otherwise the free space of the next candidate is estimated and the
\* candidate is taken or passed over; StorageFull when none is left
FS_Find ==
    /\ pc = "fs_find"
    /\ LET i == Len(rd.tried) + 1
       IN  IF image_size = 0
           THEN /\ rd' = [rd EXCEPT !.chosen = rd.candidates[1]]
                /\ pc' = "fs_write"
                /\ UNCHANGED <<exc, calls>>
           ELSE IF i > Len(rd.candidates)
           THEN /\ exc' = StorageFull("find")
                /\ pc' = "fs_done"
                /\ UNCHANGED <<rd, calls>>
           ELSE \E free \in 0..MaxFree :
                /\ rd' = [rd EXCEPT
                            !.tried = Append(@, [dir |-> rd.candidates[i], free |-> free]),
                            !.chosen = IF HasSpace(free, image_size)
                                       THEN rd.candidates[i] ELSE "none"]
                /\ pc' = IF HasSpace(free, image_size) THEN "fs_write" ELSE "fs_find"
                /\ calls' = Append(calls, "get_capacity_info")
                /\ exc' = exc
    /\ UNCHANGED <<fsFrame, loc>>

\* add, the chunked write into the chosen directory: Duplicate when the file is
\* there already; the write succeeds or fails with an errno, leaving a partial file
FS_Write ==
    /\ pc = "fs_write"
    /\ IF rd.files[rd.chosen] # "none"
       THEN /\ exc' = Duplicate("add")
            /\ pc' = "fs_done"
            /\ UNCHANGED <<rd, loc, calls>>
       ELSE \E o \in {"ok", "ENOSPC", "EFBIG", "EACCES", "EIO"} :
            /\ calls' = Append(calls, "write")
            /\ IF o = "ok"
               THEN /\ rd' = [rd EXCEPT !.files[rd.chosen] = "stored"]
                    /\ loc' = [kind |-> "file", dir |-> rd.chosen]
                    /\ exc' = exc
                    /\ pc' = "fs_done"
               ELSE /\ rd' = [rd EXCEPT !.files[rd.chosen] = "partial"]
                    /\ loc' = loc
                    /\ exc' = FsRaises(o)
                    /\ pc' = "fs_unlink"
    /\ UNCHANGED fsFrame

\* add, after a failed write: the partial file is removed; a failure to remove it is
\* logged and the error of the write propagates
FS_Unlink ==
    /\ pc = "fs_unlink"
    /\ \E ok \in BOOLEAN :
          rd' = [rd EXCEPT !.files[rd.chosen] = IF ok THEN "none" ELSE "partial"]
    /\ calls' = Append(calls, "unlink")
    /\ pc' = "fs_done"
    /\ UNCHANGED <<fsFrame, loc, exc>>

\* any datadirs, any declared size up to the largest free space, and the identifier
\* new or already stored in one directory
InitPlace ==
    /\ pc = "fs_configure"
    /\ image_size \in 0..MaxFree
    /\ src_len = image_size /\ verifier = FALSE /\ timeout = MaxTimeout
    /\ Fresh
    /\ context = NoContext /\ loc = NoLoc /\ offset = 0
    /\ returned = NoRet
    /\ image = NoImage
    /\ NoRegistry
    /\ \E c \in Datadirs, old \in Dirs \cup {"none"} :
          rd = [datadirs |-> c, candidates |-> <<>>, tried |-> <<>>, chosen |-> "none",
                files |-> [d \in Dirs |-> IF d = old THEN "old" ELSE "none"]]

NextPlace == FS_Configure \/ FS_Find \/ FS_Write \/ FS_Unlink

SpecPlace == InitPlace /\ [][NextPlace]_vars

----------------------------------------------------------------------------
(* Properties. *)

\* the last n elements of q
Tail_(q, n) == SubSeq(q, Len(q) - n + 1, Len(q))

\* C1 (SpecWait): while every poll of _wait_volume_status shows the transitional
\* status, the call sleeps only as long as the accumulated wait is below the timeout
\* and raises BackendException (timeout) at the first check that finds it reached;
\* after that failure there is no further sleep and no further poll.
C1_TimeoutEndsWait ==
    /\ [](pc = "w_loop" /\ wstatus = wfrom /\ elapsed >= 2 * timeout
            => ENABLED W_Timeout /\ ~ENABLED W_SleepPoll)
    /\ [](pc = "w_loop" /\ wstatus = wfrom /\ tries > 0
            => elapsed - hist.lastWait < 2 * timeout)
    /\ [](hist.timedOut
            => /\ pc = "done"
               /\ exc = BackendException("timeout")
               /\ elapsed = hist.slept
               /\ elapsed >= 2 * timeout
               /\ hist.polls = hist.sleeps + 1)
    /\ [][hist.timedOut => hist'.polls = hist.polls /\ hist'.sleeps = hist.sleeps]_vars

\* C1 witness: a wait that timed out after its sleeps had reached the 15 s cap
C1_Witness == hist.timedOut /\ hist.lastWait = 2 * max_recheck_wait /\ hist.sleeps >= 6

\* C2 (Spec): when conn.disconnect_volume raised in the teardown of a session, the
\* teardown went on with terminate_connection and then detach, and the exception the
\* with statement delivers is the one that was propagating when the teardown began:
\* the error the body raised (when closing the device did not raise over it), and
\* none when nothing in the session raised.
C2_DisconnectFailureContained ==
    (pc = "s_exit" /\ hist.t2Raised) =>
        /\ Len(hist.td) >= 3
        /\ Tail_(hist.td, 3) = <<"disconnect_volume", "terminate_connection", "detach">>
        /\ exc = hist.tryErr
        /\ (hist.bodyRan /\ ~hist.closeRaised => exc = hist.bodyErr)

\* C2 witness: the body failed in a write and disconnect_volume raised
C2_Witness ==
    /\ pc = "s_exit" /\ hist.t2Raised
    /\ hist.bodyErr.site = "write" /\ exc = hist.bodyErr

\* C3 (Spec): each of the four teardown steps is guarded: when step 1 (begin_detaching
\* or unreserve), step 2 (disconnect_volume) or step 3 (terminate_connection) raised,
\* every later step was still attempted.
C3_EveryTeardownStepGuarded ==
    pc = "s_exit" =>
        /\ hist.t1Raised => /\ device => InSeq("disconnect_volume", hist.td)
                            /\ InSeq("terminate_connection", hist.td)
                            /\ InSeq("detach", hist.td)
        /\ hist.t2Raised => /\ InSeq("terminate_connection", hist.td)
                            /\ InSeq("detach", hist.td)
        /\ hist.t3Raised => InSeq("detach", hist.td)

\* C4 (Spec): when an exception escaped the write loop of add, volume.delete() is
\* called exactly once, and add raises the escaped exception (an IOError possibly
\* translated by its errno), also when the delete raised.
C4_FailedWriteLoopDeletesOnce ==
    /\ hist.deleteCalls <= 1
    /\ (pc = "done" /\ hist.escaped # NoErr) =>
            /\ hist.deleteCalls = 1
            /\ Tail_(calls, 1) = <<"delete">>
            /\ exc.site = hist.escaped.site
            /\ exc.cls # "none"
            /\ (hist.escaped.cls # "IOError" => exc = hist.escaped)

\* C4 witness: the write loop failed and the delete of the clean-up raised too
C4_Witness == pc = "done" /\ hist.escaped # NoErr /\ hist.deleteRaised

\* C5 (Spec): every add that fails after client.volumes.create returned a volume has
\* attempted to delete that volume.
C5_DeleteAfterAnyFailure ==
    (pc = "done" /\ exc # NoErr /\ hist.created = 1) => hist.deleteCalls >= 1

\* C6 as claimed (Spec): an add in which a transition wait timed out fails with
\* BackendException.
C6_TimeoutIsBackendException ==
    (pc = "done" /\ hist.timedOut) => exc.cls = "BackendException"

\* C6 amended (Spec): an add in which the wait for creating -> available or for
\* attaching -> in-use timed out fails with BackendException; one in which the wait
\* for extending -> available timed out fails with StorageFull.
C6_TimeoutSurfaces ==
    (pc = "done" /\ hist.timedOut) =>
        exc = IF wret = "extend" THEN StorageFull("timeout")
                                 ELSE BackendException("timeout")

\* C6 witness: the wait after an extension timed out
C6_Witness == pc = "done" /\ hist.timedOut /\ wret = "extend"

\* C7 (Spec): in an add with declared size 0 the device holds, at every moment, the
\* first bytes_written bytes of the source in order and nothing else, the chunk held
\* back for an extension being counted as not yet written; on success all of the
\* source has been written.
C7_DeviceHoldsSourcePrefix ==
    image_size = 0 =>
        /\ \A i \in DOMAIN dev : dev[i] = IF i <= bytes_written THEN i ELSE 0
        /\ bytes_written <= src_pos
        /\ (pc = "body_seek" /\ buf # NoBuf) => buf[1] = bytes_written + 1
        /\ (pc = "done" /\ exc = NoErr) => bytes_written = src_len

\* C7 witness: a successful add of undeclared size that extended the volume twice
C7_Witness ==
    /\ pc = "done" /\ exc = NoErr /\ image_size = 0
    /\ hist.extends = 2 /\ bytes_written = src_len

\* C8 (Spec): volume.extend is issued only while the remote volume is available.
C8_ExtendOnlyWhenAvailable == hist.extendAt \in {"none", "available"}

\* C9 (Spec): update_readonly_flag is called at most once, once on every successful
\* add, only when the whole source has been written and no session is open, and never
\* by an add whose write loop an exception escaped.
C9_ReadonlyOnceAfterWrite ==
    /\ hist.readonlyCalls <= 1
    /\ (pc = "done" /\ exc = NoErr) => hist.readonlyCalls = 1
    /\ hist.readonlyCalls = 1 =>
            /\ src_pos = src_len /\ bytes_written = src_len
            /\ ~hist.sessOpen
            /\ hist.sessions >= 1
    /\ hist.escaped # NoErr => hist.readonlyCalls = 0

\* C9 witness: a successful add of a source larger than one unit
C9_Witness == pc = "done" /\ exc = NoErr /\ hist.readonlyCalls = 1 /\ src_len > Gi

\* C10 (SpecCreate): the volume is created with max(1, ceil(image_size / Gi)) units.
C10_VolumeSizeIsCeil ==
    hist.created = 1 => hist.createdSize = Max(1, CeilDiv(image_size, Gi))

\* C11 (SpecAdd): a successful add with declared size 0, by the cinder driver or by
\* the rbd driver, has read the source to its end, and the byte count it returns
\* is the number of bytes it read.
C11_ZeroSizeCountsWhatWasRead ==
    image_size = 0 =>
        /\ (pc = "done" /\ exc = NoErr) =>
                src_pos = src_len /\ bytes_written = src_pos
        /\ (pc = "r_done" /\ exc = NoErr) =>
                /\ returned.op = "add"
                /\ src_pos = src_len /\ returned.size = src_pos
                /\ Len(returned.checksum) = src_pos

\* C11 witness: the rbd driver stored a source of undeclared size and of more than
\* two chunks
C11_Witness ==
    /\ pc = "r_done" /\ exc = NoErr /\ image_size = 0
    /\ src_len > 2 * WRITE_CHUNKSIZE /\ returned.size = src_len

\* C12 (Spec): get_size on the location a successful add returned, when it reads the
\* volume's record (no internal error is logged), returns the declared size when
\* that was not 0 and the number of bytes written when it was 0; the volume is
\* never reported missing.
C12_GetSizeAfterAdd ==
    pc = "gs_done" =>
        /\ exc = NoErr
        /\ returned.op = "get_size"
        /\ returned.logged = NoErr =>
                returned.value = IF image_size = 0 THEN bytes_written ELSE image_size
        /\ returned.logged # NoErr => returned.value = 0

\* C12 witness: the size was undeclared, the volume was extended, and get_size
\* returns the length of the source
C12_Witness ==
    /\ pc = "gs_done" /\ image_size = 0 /\ hist.extends >= 1
    /\ returned.logged = NoErr /\ returned.value = src_len

Registered == {"cinder", "swift", "swift+http", "x"}

\* the store instance the registry holds for scheme k
StoreOf(k) == infos[SCHEME_TO_CLS_MAP[k]].store

\* C14 (SpecResolve): a call of get_store_from_scheme that returns a store whose
\* driver lacks DRIVER_REUSABLE returns an instance constructed during that very
\* call, on which configure has returned; when no other thread is calling, the
\* registry then maps every scheme that instance reports to it.
C14_FreshInstancePerResolution ==
    \A t \in Threads :
        (thr[t].pc = "ret" /\ stores[thr[t].ret].entry \notin Reusable) =>
            /\ stores[thr[t].ret].owner = t
            /\ stores[thr[t].ret].configured = "ok"
            /\ thr[2].pc = "off" =>
                  \A i \in 1..Len(get_schemes(stores[thr[t].ret].entry)) :
                      StoreOf(get_schemes(stores[thr[t].ret].entry)[i]) = thr[t].ret

\* C14 witness: the second resolution of swift by a single caller
C14_Witness ==
    /\ thr[2].pc = "off" /\ thr[1].pc = "ret" /\ thr[1].arg = "swift+http"
    /\ thr[1].ret = MaxStores /\ StoreOf("swift") = MaxStores

\* C15 (SpecResolve): with two threads calling get_store_from_scheme at once, every
\* call that returns returns an instance on which configure has returned, a call
\* for a store that is not reusable returns the instance it constructed itself (so
\* no two calls return the same one), and at every moment every registered scheme
\* is mapped to an instance on which configure has returned.
C15_ConcurrentResolution ==
    /\ \A t \in Threads :
          thr[t].pc = "ret" =>
            /\ stores[thr[t].ret].configured = "ok"
            /\ stores[thr[t].ret].entry \notin Reusable =>
                  /\ stores[thr[t].ret].owner = t
                  /\ \A u \in Threads \ {t} : thr[u].pc = "ret" => thr[u].ret # thr[t].ret
    /\ \A k \in Registered :
          /\ SCHEME_TO_CLS_MAP[k] # 0
          /\ StoreOf(k) # 0
          /\ stores[StoreOf(k)].configured = "ok"

\* C15 witness: two overlapping calls for swift both returned, each its own instance
C15_Witness ==
    /\ thr[1].pc = "ret" /\ thr[2].pc = "ret"
    /\ thr[1].arg = "swift" /\ thr[2].arg = "swift"
    /\ stores[thr[1].ret].owner = 1 /\ stores[thr[2].ret].owner = 2

\* C16 (SpecResolve): a call for a scheme that is not registered raises UnknownScheme
\* (RuntimeError through verify_default_store); a call for a scheme whose store is
\* reusable returns the registered instance; no step of either call changes the
\* scheme map or any of its entries.
C16_RegistryFrame ==
    /\ [](\A t \in Threads :
            /\ (thr[t].pc \notin {"off", "idle", "g_lookup"}
                    /\ SCHEME_TO_CLS_MAP[thr[t].arg] = 0) =>
                  /\ thr[t].pc = "raised"
                  /\ thr[t].exc = IF thr[t].via = "direct"
                                  THEN UnknownScheme("get_store_from_scheme")
                                  ELSE RuntimeError("verify_default_store")
            /\ (thr[t].pc = "raised" /\ thr[t].exc.cls \in {"UnknownScheme", "RuntimeError"})
                  => SCHEME_TO_CLS_MAP[thr[t].arg] = 0
            /\ (thr[t].pc = "ret" /\ stores[thr[t].ret].entry \in Reusable) =>
                  /\ SCHEME_TO_CLS_MAP[thr[t].arg] # 0
                  /\ StoreOf(thr[t].arg) = thr[t].ret)
    /\ [][\A t \in Threads :
            (/\ thr'[t] # thr[t]
             /\ thr[t].pc \notin {"off", "idle", "ret", "raised"}
             /\ \/ SCHEME_TO_CLS_MAP[thr[t].arg] = 0
                \/ stores[StoreOf(thr[t].arg)].entry \in Reusable)
            => UNCHANGED <<SCHEME_TO_CLS_MAP, infos>>]_vars

\* C16 witness: one call raised RuntimeError through verify_default_store and another
\* returned the registered cinder store
C16_Witness ==
    /\ thr[1].pc = "raised" /\ thr[1].exc = RuntimeError("verify_default_store")
    /\ thr[2].pc = "ret" /\ thr[2].arg = "cinder" /\ thr[2].ret = 1

\* the backend of entry point d is registered: some scheme is mapped to an entry of it
IsRegistered(d) ==
    \E k \in SchemeNames : /\ SCHEME_TO_CLS_MAP[k] # 0
                           /\ infos[SCHEME_TO_CLS_MAP[k]].store_entry = d

C18_NoSchemesIsFatal ==
    /\ (\E d \in cs.loaded : ~NotImplemented(d) /\ get_schemes(d) = <<>>) =>
            \/ pc = "cs_register"
            \/ pc = "cs_done" /\ exc = BackendException("create_stores")
                              /\ returned = NoRet
    /\ exc # NoErr =>
            \E d \in cs.loaded : ~NotImplemented(d) /\ get_schemes(d) = <<>>

\* C18 witness: create_stores failed so after it had registered two other backends
C18_Witness ==
    /\ pc = "cs_done" /\ exc = BackendException("create_stores")
    /\ cs.store_count = 2 /\ "nosch" \in cs.loaded

\* C19 (SpecUri): the URI of a location that _create_image made parses to a location
\* with the same fsid, pool, image and snapshot.
C19_LocationRoundTrip ==
    pc = "reparsed" => exc = NoErr /\ returned.fields = loc.fields

\* C20 (SpecUri), as claimed: get_uri of the location parsed from an accepted URI is
\* that URI.
C20_UriRoundTrip ==
    pc = "reformatted" => returned.uri = loc.uri

\* a component in the form quote gives it: letters, digits, '_', '.' and '-' as they
\* are, and '%' only before the two upper-case hexadecimal digits of another byte
RECURSIVE Canonical(_)
Canonical(p) ==
    IF p = <<>> THEN TRUE
    ELSE IF Head(p) \in always_safe THEN Canonical(Tail(p))
    ELSE /\ Head(p) = Percent /\ Len(p) >= 3
         /\ p[2] \in UpperHex /\ p[3] \in UpperHex
         /\ (16 * HexValue(p[2]) + HexValue(p[3])) \notin always_safe
         /\ Canonical(From(p, 3))

\* the components of an rbd URI
ComponentsOf(uri) == split(From(uri, Len(RbdPrefix)))

\* C20 (SpecUri), amended: get_uri of the location parsed from an accepted URI is that
\* URI when the URI is a cinder URI, an rbd URI of one component, or an rbd URI of
\* four components each in the form quote gives.
C20_CanonicalUriRoundTrip ==
    (/\ pc = "reformatted"
     /\ (loc.scheme = "rbd" /\ Len(ComponentsOf(loc.uri)) = 4) =>
            \A i \in 1..4 : Canonical(ComponentsOf(loc.uri)[i]))
    => returned.uri = loc.uri

\* C20 witness: an rbd URI of four components, one of them an escaped '/', came back
\* as it was
C20_Witness ==
    /\ pc = "reformatted"
    /\ loc.scheme = "rbd"
    /\ loc.uri = RbdPrefix \o Join(<<<<50>>, <<Percent, 50, 70>>, <<50>>, <<50>>>>)
    /\ returned.uri = loc.uri

\* the number of '/' in a string
RECURSIVE Slashes(_)
Slashes(s) == IF s = <<>> THEN 0 ELSE (IF Head(s) = Slash THEN 1 ELSE 0) + Slashes(Tail(s))

\* a string with an empty component: it is empty, starts or ends with '/', or has
\* two '/' in a row
EmptyComponent(s) ==
    \/ s = <<>>
    \/ s[1] = Slash
    \/ s[Len(s)] = Slash
    \/ \E i \in 1..(Len(s) - 1) : s[i] = Slash /\ s[i + 1] = Slash

\* the URI is malformed for the scheme
Malformed(scheme, uri) ==
    IF scheme = "cinder"
    THEN \/ ~startswith(uri, CinderPrefix)
         \/ ~is_uuid_like(From(uri, Len(CinderPrefix)))
    ELSE \/ ~startswith(uri, RbdPrefix)
         \/ Slashes(From(uri, Len(RbdPrefix))) \notin {0, 3}
         \/ EmptyComponent(From(uri, Len(RbdPrefix)))

\* C21 (SpecUri): parse_uri of a malformed URI raises BadStoreUri and gives no
\* location, and BadStoreUri is all parse_uri ever raises.
C21_MalformedUriRejected ==
    /\ (pc = "parsed" /\ Malformed(loc.scheme, loc.uri)) =>
            exc = BadStoreUri /\ returned = NoRet
    /\ exc \in {NoErr, BadStoreUri}

\* C21 witness: an rbd URI of four components, the third of them empty, was rejected
C21_Witness ==
    /\ pc = "parsed" /\ exc = BadStoreUri /\ loc.scheme = "rbd"
    /\ loc.uri = RbdPrefix \o Join(<<<<50>>, <<50>>, <<>>, <<50>>>>)

\* C22 (SpecGet): when the service answers the volumes.get of get with NotFound,
\* get raises the store's NotFound.
C22_GetOfMissingVolumeIsNotFound ==
    (pc = "get_done" /\ rd.reply = "NotFound") => exc.cls = "NotFound"

\* the chunks of a read, joined
RECURSIVE Concat(_)
Concat(chunks) == IF chunks = <<>> THEN <<>> ELSE Head(chunks) \o Concat(Tail(chunks))

\* the size of the object get reads: what the volume record says
ObjectSize == SizeOfVolume(metadata, capacity)[1]

\* the iterator of get(offset = o, chunk_size = n) has ended without an error, and
\* the n bytes from o on are bytes of the object, which the device holds
PartialReadDone ==
    /\ pc = "it_done" /\ exc = NoErr
    /\ rd.chunk_size.has
    /\ rd.offset + rd.chunk_size.value <= ObjectSize
    /\ ObjectSize <= capacity * Gi

\* C23 (SpecGet), as claimed: such a read yields exactly the n bytes of the object
\* from offset o on, and get reports the size n.
C23_PartialRead ==
    PartialReadDone =>
        /\ Concat(rd.out) = SubSeq(dev, rd.offset + 1, rd.offset + rd.chunk_size.value)
        /\ returned.size = rd.chunk_size.value

\* what does hold of a partial read: for n >= 1 it yields exactly the n bytes of the
\* object from offset o on, in non-empty chunks of at most READ_CHUNKSIZE bytes, and
\* get reports the size n
PartialReadOfSomeBytes ==
    (PartialReadDone /\ rd.chunk_size.value >= 1) =>
        /\ Concat(rd.out) = SubSeq(dev, rd.offset + 1, rd.offset + rd.chunk_size.value)
        /\ \A i \in 1..Len(rd.out) : Len(rd.out[i]) \in 1..READ_CHUNKSIZE
        /\ returned.size = rd.chunk_size.value

\* a partial read: an offset other than 0, or a chunk_size other than None and 0
Partial == rd.offset # 0 \/ (rd.chunk_size.has /\ rd.chunk_size.value # 0)

Changing == {"resize", "write", "create_snap", "protect_snap", "delete",
             "unprotect_snap", "remove_snap", "remove"}

SnapSteps == <<"open", "unprotect_snap", "remove_snap", "remove">>

\* C28 (SpecRbdDelete): a delete that names a snapshot calls unprotect_snap,
\* remove_snap and remove in this order and stops at the first call that raises.  A
\* busy snapshot at unprotect_snap gives InUseByStore with the snapshot and the image
\* left as they were, rbd.ImageNotFound at any call on the image gives NotFound, and
\* a busy image at remove gives InUseByStore.
C28_DeleteInOrder ==
    [][(pc = "rbd_delete" /\ loc.snapshot) =>
        LET made == calls'
            n == rd'.pos
            failed_at == IF n = 0 THEN "none" ELSE made[Len(made)]
        IN  /\ made = IF n = 0 THEN <<"connect">> \o SnapSteps
                      ELSE SubSeq(<<"connect">> \o SnapSteps, 1, n)
            /\ n = 0 => exc' = NoErr /\ image' = NoImage
            /\ (failed_at = "unprotect_snap" /\ rd'.reply = "ImageBusy") =>
                    exc'.cls = "InUseByStore" /\ image' = image
            /\ (n > 1 /\ rd'.reply = "ImageNotFound") => exc'.cls = "NotFound"
            /\ (failed_at = "remove" /\ rd'.reply = "ImageBusy") =>
                    /\ exc'.cls = "InUseByStore"
                    /\ image' = [image EXCEPT !.snap = "none"]
            /\ n > 0 => image'.exists = image.exists
    ]_vars

\* C28 witness: the snapshot was busy; the image and its snapshot are still there
C28_Witness ==
    /\ pc = "rbd_delete_done"
    /\ loc.snapshot
    /\ rd.reply = "ImageBusy" /\ exc.cls = "InUseByStore"
    /\ calls = <<"connect", "open", "unprotect_snap">>
    /\ image.exists /\ image.snap = "protected" /\ image.size = 2

\* C29 (SpecRbd): when a step of add failed after the image was created, the
\* clean-up is invoked, the image is gone afterwards, and add raises the exception
\* of the step that failed, whatever the clean-up did.
C29_CleanupKeepsOriginal ==
    [][pc = "r_handler" =>
        /\ InSeq("delete", calls')
        /\ ~image'.exists
        /\ exc' = exc
    ]_vars

\* what does hold of a failed add: the clean-up was invoked whenever a step failed
\* after the image was created, and never otherwise
CleanupInvoked ==
    pc = "r_done" =>
        (InSeq("delete", calls) <=> (exc # NoErr /\ InSeq("open", calls)))

\* the first step of each operation of the cinder store
Entry == {"enter", "get", "get_size", "delete"}

\* the operation starting at entry is called without a context, or with one that has
\* no service catalog while the configuration names no user of its own; add needs a
\* context in any case
NoUsableContext(entry, ctx) ==
    \/ ~ctx.user_overriden /\ ctx.kind \in {"none", "nocatalog"}
    \/ entry = "enter" /\ ctx.kind = "none"

\* C30 (SpecOps): add, get, get_size and delete of the cinder store, called without
\* a usable context, raise BadStoreConfiguration and make no call to the service.
C30_ContextCheckedFirst ==
    [][(pc \in Entry /\ NoUsableContext(pc, context)) =>
        /\ exc'.cls = "BadStoreConfiguration"
        /\ calls' = calls
        /\ remote' = remote
    ]_vars

\* what does hold: the same of add, get and delete, and no call to the service by
\* get_size
ContextCheckedByOthers ==
    [][(pc \in Entry /\ NoUsableContext(pc, context)) =>
        /\ pc # "get_size" => exc'.cls = "BadStoreConfiguration"
        /\ calls' = calls
        /\ remote' = remote
    ]_vars

\* C32 (SpecWait): once a poll of _wait_volume_status has shown a status other than
\* status_transition, the call neither sleeps nor polls again: it returns the volume
\* when that status is status_expected and raises BackendException (unexpected
\* status) otherwise, whatever the timeout and also after the very first poll.
C32_StatusChangeEndsWait ==
    /\ [](pc = "w_loop" /\ wstatus # wfrom
            => ENABLED W_Check /\ ~ENABLED W_SleepPoll /\ ~ENABLED W_Timeout)
    /\ [][(pc = "w_loop" /\ wstatus # wfrom) =>
            /\ pc' = "done"
            /\ exc' = IF wstatus = wto THEN NoErr ELSE BackendException("status")
            /\ remote' = remote
            /\ hist'.polls <= hist.polls /\ hist'.sleeps <= hist.sleeps
            /\ ~hist'.timedOut
       ]_vars
    /\ [](hist.waitEnd \in {"ok", "status"} => pc = "done")

\* C32 witness: the first poll showed the error status; no sleep, and the timeout of
\* 0 did not turn the failure into a timeout
C32_Witness ==
    /\ pc = "done" /\ exc = BackendException("status")
    /\ hist.polls = 1 /\ hist.sleeps = 0
    /\ timeout = 0 /\ wstatus = "error"

RECURSIVE Sum(_)
Sum(q) == IF q = <<>> THEN 0 ELSE q[1] + Sum(SubSeq(q, 2, Len(q)))

\* the sleeps of a wait, in half seconds: 0.5, 1, 2, 4, 8, 15, 15, ... seconds
SleepTable == <<1, 2, 4, 8, 16, 30, 30, 30>>

\* C33 (SpecWait): the k-th sleep of _wait_volume_status, k counted from 0, lasts
\* min(0.5 * 2^k, 15) seconds.
C33_BackoffSchedule ==
    hist.sleeps >= 1 =>
        /\ hist.lastWait = SleepTable[hist.sleeps]
        /\ hist.slept = Sum(SubSeq(SleepTable, 1, hist.sleeps))

\* C33 witness: the sixth sleep, the first of 15 seconds
C33_Witness == pc = "w_loop" /\ hist.sleeps = 6 /\ hist.lastWait = 30 /\ hist.slept = 61

\* C34 (SpecWait): the time slept in one call of _wait_volume_status is never more
\* than the configured timeout.
C34_SleepWithinTimeout == hist.slept <= 2 * timeout

\* what does hold: the sleeps before the last one stay below the timeout, so the time
\* slept exceeds it by less than one sleep, which is at most max_recheck_wait
SleepOvershoot ==
    /\ hist.slept - hist.lastWait < 2 * timeout \/ hist.slept = 0
    /\ hist.slept < 2 * timeout + 2 * max_recheck_wait \/ hist.slept = 0

\* C35 (Spec): when a session closes, the first call of its teardown released the
\* reservation: begin_detaching when the volume had reached in-use, unreserve when it
\* had not.
C35_ReservationReleased ==
    pc = "s_exit" =>
        /\ Len(hist.td) >= 1
        /\ hist.td[1] = IF sess_status = "in-use" THEN "begin_detaching" ELSE "unreserve"

\* what does hold: a session whose wait for in-use returned begins its teardown with
\* begin_detaching, and no session calls unreserve
ReleaseOfAttached ==
    /\ (pc = "s_exit" /\ sess_status = "in-use") =>
            Len(hist.td) >= 1 /\ hist.td[1] = "begin_detaching"
    /\ ~InSeq("unreserve", calls)

\* the first n bytes of the source, in order
SourcePrefix(n) == [i \in 1..n |-> i]

\* C36 (Spec): the checksum of add has been fed the bytes read from the source so
\* far, each once and in order, and so has the verifier when one is given (but for
\* the chunk whose update it refused); on success the checksum returned is that of
\* the whole source, which is what the device holds.
C36_ChecksumOfWhatWasRead ==
    /\ hashed = SourcePrefix(src_pos)
    /\ ~verifier => hist.verified = <<>>
    /\ verifier =>
            /\ Len(hist.verified) <= Len(hashed)
            /\ hist.verified = SubSeq(hashed, 1, Len(hist.verified))
            /\ Len(hashed) - Len(hist.verified) <= WRITE_CHUNKSIZE
            /\ exc = NoErr => hist.verified = hashed
    /\ (pc = "done" /\ exc = NoErr) =>
            /\ hashed = SourcePrefix(src_len)
            /\ bytes_written = src_len
            /\ \A i \in 1..src_len : dev[i] = hashed[i]

\* C36 witness: a successful add of three bytes of undeclared size with a verifier,
\* whose second chunk was held back across an extension
C36_Witness ==
    /\ pc = "done" /\ exc = NoErr
    /\ image_size = 0 /\ verifier /\ src_len = 3
    /\ hist.extends = 1
    /\ hashed = <<1, 2, 3>> /\ hist.verified = <<1, 2, 3>>

\* the units a volume needs for n bytes: max(1, ceil(n / Gi))
UnitsFor(n) == IF n = 0 THEN 1 ELSE (n + Gi - 1) \div Gi

\* C37 (Spec): in an add of undeclared size the bytes written never exceed the
\* capacity add counts for the volume, which grows by one unit per extension and is
\* what the service has granted; on success the volume has max(1, ceil(total / Gi))
\* units, one extension for each unit beyond the first.
C37_CapacityFollowsBytes ==
    (image_size = 0 /\ hist.created = 1) =>
        /\ bytes_written <= size_gb * Gi
        /\ bytes_written <= capacity * Gi
        /\ size_gb = 1 + hist.extends
        /\ (pc = "done" /\ exc = NoErr) =>
                /\ size_gb = UnitsFor(src_len)
                /\ capacity = size_gb
                /\ hist.extends = UnitsFor(src_len) - 1

\* C37 witness: one byte more than a unit holds, stored with one extension
C37_Witness ==
    /\ pc = "done" /\ exc = NoErr /\ image_size = 0
    /\ src_len = Gi + 1 /\ bytes_written = Gi + 1
    /\ size_gb = 2 /\ capacity = 2 /\ hist.extends = 1

\* C38 (Spec): when add has issued volume.delete, no session is open, and the
\* teardown of the last session it opened ran through its last step, detach.
C38_TeardownBeforeDelete ==
    InSeq("delete", calls) =>
        /\ ~hist.sessOpen
        /\ hist.sessions >= 1 =>
                Len(hist.td) >= 1 /\ hist.td[Len(hist.td)] = "detach"

\* what does hold: no delete while a session is open, and detach came before the
\* delete unless the first step of the teardown raised
DeleteAfterSession ==
    InSeq("delete", calls) =>
        /\ ~hist.sessOpen
        /\ pc \notin {"s_init", "s_connect", "s_attach", "s_open", "s_close", "t1", "t2",
                      "t3", "t4", "s_exit", "body_seek", "body_read", "body_write"}
        /\ (hist.sessions >= 1 /\ ~hist.t1Raised) =>
                Len(hist.td) >= 1 /\ hist.td[Len(hist.td)] = "detach"

TeardownCalls == {"begin_detaching", "unreserve", "disconnect_volume",
                  "terminate_connection", "detach"}

\* the calls made after the last volume.reserve
SinceReserve(q) ==
    LET k == CHOOSE i \in 1..Len(q) :
                 q[i] = "reserve" /\ \A j \in (i + 1)..Len(q) : q[j] # "reserve"
    IN  SubSeq(q, k + 1, Len(q))

\* C39 (Spec): when volume.reserve failed, the open fails with BackendException, the
\* volume at the service is left as it was, and no teardown step is executed, then
\* or later.
C39_FailedReserveNoTeardown ==
    /\ [][(pc = "s_reserve" /\ remote' # "attaching") =>
            /\ exc' = BackendException("reserve")
            /\ pc' = "handler"
            /\ remote' = remote
            /\ calls' = Append(calls, "reserve")
            /\ hist'.sessions = hist.sessions /\ ~hist'.sessOpen
       ]_vars
    /\ [](exc = BackendException("reserve") =>
            /\ pc \in {"handler", "cleanup", "done"}
            /\ \A i \in 1..Len(SinceReserve(calls)) :
                   SinceReserve(calls)[i] \notin TeardownCalls)

\* C39 witness: the reserve of the second session, after an extension, failed; add
\* ended with the delete of the volume and no teardown
C39_Witness ==
    /\ pc = "done" /\ exc = BackendException("reserve")
    /\ hist.extends = 1 /\ hist.sessions = 1
    /\ Tail_(calls, 3) = <<"extend", "reserve", "delete">>

\* what the iterator of the rbd store has yielded holds of every read, short or not:
\* the chunks are the bytes of the image from its start on, each read where the one
\* before ended, none longer than the chunk size, and when the iterator ends they
\* are the whole image
IteratorYieldsImage ==
    (pc \in {"rbd_iter", "rbd_get_done"} /\ image.exists) =>
        /\ Concat(rd.out) = SubSeq(image.data, 1, rd.pos)
        /\ \A i \in 1..Len(rd.out) : Len(rd.out[i]) <= READ_CHUNKSIZE
        /\ (pc = "rbd_get_done" /\ exc = NoErr) =>
                Concat(rd.out) = image.data /\ Len(Concat(rd.out)) = image.size

\* C40 (SpecRbdGet): the iterator of the rbd store yields the image in chunks that
\* follow one another, none longer than the chunk size, and ends after the chunks
\* add up to the size of the image, whatever the reads return: every turn of the loop
\* brings the end nearer, so an image of S bytes takes at most S reads.
C40_IteratorEnds ==
    /\ IteratorYieldsImage
    /\ \A i \in 1..Len(rd.out) : Len(rd.out[i]) >= 1
    /\ Len(rd.out) <= image.size

\* the priority and the place of directory d in the configured datadirs
PriorityOf(d) == (CHOOSE e \in {rd.datadirs[i] : i \in 1..Len(rd.datadirs)} : e.dir = d).priority
PlaceOf(d) == CHOOSE i \in 1..Len(rd.datadirs) : rd.datadirs[i].dir = d

\* this call has written a file of the image into directory d
Written(d) == rd.files[d] \in {"partial", "stored"}

\* C31 (SpecPlace): filesystem add with several data directories tries the
\* candidates in descending priority order (directories of equal priority in the
\* order given), passes over every candidate whose free space is less than the
\* declared size, and stores the image in the first candidate that fits; when no
\* candidate fits it fails with StorageFull and has left no file in any directory.
C31_PlacementByPriority ==
    LET cand == rd.candidates
        tried == rd.tried
        n == Len(tried)
    IN  (pc \in {"fs_find", "fs_write", "fs_unlink", "fs_done"} /\ cand # <<>>) =>
            \* the candidates are the configured directories, ranked
            /\ Len(cand) = Len(rd.datadirs)
            /\ {cand[i] : i \in 1..Len(cand)} = {rd.datadirs[i].dir : i \in 1..Len(rd.datadirs)}
            /\ \A i, j \in 1..Len(cand) :
                  i < j => \/ PriorityOf(cand[i]) > PriorityOf(cand[j])
                           \/ /\ PriorityOf(cand[i]) = PriorityOf(cand[j])
                              /\ PlaceOf(cand[i]) < PlaceOf(cand[j])
            \* they are tried in that order, and each one passed over was too small
            /\ n <= Len(cand)
            /\ \A i \in 1..n : tried[i].dir = cand[i]
            /\ \A i \in 1..n :
                  (i < n \/ rd.chosen = "none") => tried[i].free < image_size
            \* the one chosen is the first that fits
            /\ (rd.chosen # "none" /\ image_size > 0) =>
                  /\ n >= 1
                  /\ rd.chosen = cand[n]
                  /\ tried[n].free >= image_size
            /\ pc \in {"fs_write", "fs_unlink"} => rd.chosen # "none"
            \* no file is written anywhere else, and the image is stored there
            /\ \A d \in Dirs : Written(d) => d = rd.chosen
            /\ (pc = "fs_done" /\ exc = NoErr) =>
                  /\ rd.chosen # "none"
                  /\ rd.files[rd.chosen] = "stored"
                  /\ loc = [kind |-> "file", dir |-> rd.chosen]
            \* no candidate fits: StorageFull, nothing written
            /\ (pc = "fs_done" /\ rd.chosen = "none") =>
                  /\ exc = StorageFull("find")
                  /\ n = Len(cand)
                  /\ \A d \in Dirs : ~Written(d)
                  /\ ~InSeq("write", calls)
            /\ exc = StorageFull("find") => pc = "fs_done" /\ rd.chosen = "none"

\* C31 witness: the candidate of the highest priority was too small and the image
\* is stored in the next one, of a lower priority, given before it in the datadirs
C31_Witness ==
    /\ pc = "fs_done" /\ exc = NoErr
    /\ Len(rd.tried) = 2
    /\ rd.tried[1].free < image_size
    /\ rd.files[rd.tried[2].dir] = "stored"
    /\ rd.datadirs[1] = Datadir(rd.tried[2].dir, 100)
    /\ rd.datadirs[2] = Datadir(rd.tried[1].dir, 200)

====
